---- MODULE Spec2Model ----
(***************************************************************************)
(* Model of the regime-sync client of the PublicGex dashboard: the         *)
(* NinjaTrader indicator src/OpenGamma.cs (TCP client loop, hand-written    *)
(* decoder, shared regime state, spread / level adjustment, render pass).   *)
(*                                                                         *)
(* Text is a sequence of one-character strings, indexed from 0 as in C#    *)
(* (At(s, i) is s[i]).  A double is held in tenths (100.6 is 1006): every  *)
(* number of the modelled lines and prices has at most one decimal digit.  *)
(*                                                                         *)
(* Threads: the listener thread (ClientLoop and the first lock region of   *)
(* ParseRegimeUpdate), and the UI thread, which runs the operations posted *)
(* to the dispatcher and OnRender one at a time.  OnBarUpdate may run at   *)
(* any moment.  A lock region is entered in one step and run and left in   *)
(* the next; OnRender's two copy-only regions are one step each.           *)
(* DateTime.Now is the number of lines received so far.  CurrentBar        *)
(* saturates at 1: the code only tests CurrentBar > 0.  Host calls that    *)
(* may throw (Dispatcher.InvokeAsync, the output window, ForceRefresh)     *)
(* either return or throw into the enclosing handler.                      *)
(*                                                                         *)
(* Spec is the indicator on a chart, as the host drives it.  SpecLifecycle *)
(* is the listener under any order of StartListener / StopListener calls   *)
(* (StopListener in two steps, with its bounded Join), SpecJoinFair and    *)
(* SpecLifecycleFair add the scheduling assumptions for progress, and      *)
(* SpecAdjust runs the level decoder alone on every small raw list.        *)
(*                                                                         *)
(* SpecSpread and SpecDecode run the spread update and ParseRegimeUpdate   *)
(* on their own over bounded prices and raw lines.                         *)
(*                                                                         *)
(* The dashboard pages (src/web/main.js and the playground script at the   *)
(* end of src/OpenGamma.cs) are a second program of the repository, held   *)
(* in the variables of dashVars: the awaits of init and loadSymbol are     *)
(* step boundaries, a timer is a record [id, kind, period] in timers, a    *)
(* feed entry is a record [n, text] numbered in order of arrival, and a    *)
(* compass position is a pair in tenths of a percent.  SpecDashboard is a  *)
(* page under any interleaving of init, saveSettings, timer ticks, symbol  *)
(* changes, backend answers and events; SpecFeed delivers events only and  *)
(* SpecCompass renders compass positions only.  The indicator's variables  *)
(* stay idle in these, and the dashboard's in the indicator's.             *)
(***************************************************************************)
EXTENDS Integers, Sequences, FiniteSets, TLC

(***************************************************************************)
(* Bounds of the model.                                                     *)
(***************************************************************************)
\* lines the socket delivers in one run
MaxLines == 2

\* entries of a raw level list given to the decoder on its own
MaxLevels == 2

\* init and saveSettings calls of a dashboard page in one run
MaxCalls == 2

\* loadSymbol calls of a dashboard page in one run
MaxLoads == 3

\* backend events a dashboard page receives while it loads and refreshes
MaxEvents == 1

(***************************************************************************)
(* Text helpers: the System.String operations the decoder uses.            *)
(***************************************************************************)
\* a null string reference (no character sequence equals it)
Null == <<"null">>

Min(S) == CHOOSE x \in S : \A y \in S : x <= y

At(s, i) == s[i + 1]

StartsAt(s, pat, i) ==
    /\ i + Len(pat) <= Len(s)
    /\ \A k \in 1..Len(pat) : s[i + k] = pat[k]

\* String.IndexOf(pat, from): first index >= from where pat occurs, else -1
IndexOf(s, pat, from) ==
    LET hits == {i \in from..(Len(s) - Len(pat)) : StartsAt(s, pat, i)}
    IN  IF hits = {} THEN -1 ELSE Min(hits)

\* String.Substring(start, len)
Substring(s, start, len) == SubSeq(s, start + 1, start + len)

IsWhiteSpace(c) == c \in {" ", "\t"}

IsDigit(c) == c \in {"0", "1", "2", "3", "4", "5", "6", "7", "8", "9"}

DigitVal(c) ==
    CASE c = "0" -> 0 [] c = "1" -> 1 [] c = "2" -> 2 [] c = "3" -> 3
      [] c = "4" -> 4 [] c = "5" -> 5 [] c = "6" -> 6 [] c = "7" -> 7
      [] c = "8" -> 8 [] c = "9" -> 9

\* first index >= start whose character is in stop, or Len(s)
ScanUntil(s, start, stop) ==
    Min({i \in start..Len(s) : i = Len(s) \/ At(s, i) \in stop})

\* first index >= start whose character is not in keep, or Len(s)
ScanWhile(s, start, keep) ==
    Min({i \in start..Len(s) : i = Len(s) \/ At(s, i) \notin keep})

\* String.Trim()
Trim(s) ==
    LET inked == {i \in 1..Len(s) : ~IsWhiteSpace(s[i])}
    IN  IF inked = {} THEN <<>>
        ELSE SubSeq(s, Min(inked), CHOOSE j \in inked : \A k \in inked : k <= j)

\* String.IsNullOrWhiteSpace
IsNullOrWhiteSpace(s) == s = Null \/ \A i \in 1..Len(s) : IsWhiteSpace(s[i])

AllDigits(s) == \A i \in 1..Len(s) : IsDigit(s[i])

RECURSIVE DigitsVal(_)
DigitsVal(s) ==
    IF s = <<>> THEN 0
    ELSE DigitsVal(SubSeq(s, 1, Len(s) - 1)) * 10 + DigitVal(s[Len(s)])

\* int.TryParse(s, out v): [ok, val], val = 0 on failure (also for null)
IntTryParse(s) ==
    IF s = Null THEN [ok |-> FALSE, val |-> 0]
    ELSE LET t    == Trim(s)
             neg  == t # <<>> /\ t[1] = "-"
             body == IF t # <<>> /\ t[1] \in {"-", "+"} THEN Tail(t) ELSE t
             ok   == body # <<>> /\ AllDigits(body)
         IN  IF ok THEN [ok |-> TRUE,
                         val |-> IF neg THEN 0 - DigitsVal(body)
                                 ELSE DigitsVal(body)]
             ELSE [ok |-> FALSE, val |-> 0]

\* double.TryParse(s, out v) on sign, digits and one decimal point, in tenths:
\* [ok, val], val = 0 on failure (also for null).  Exponents are not modelled.
DoubleTryParse(s) ==
    IF s = Null THEN [ok |-> FALSE, val |-> 0]
    ELSE LET t     == Trim(s)
             neg   == t # <<>> /\ t[1] = "-"
             body  == IF t # <<>> /\ t[1] \in {"-", "+"} THEN Tail(t) ELSE t
             dots  == {i \in 1..Len(body) : body[i] = "."}
             intS  == IF dots = {} THEN body
                      ELSE SubSeq(body, 1, Min(dots) - 1)
             fracS == IF dots = {} THEN <<>>
                      ELSE SubSeq(body, Min(dots) + 1, Len(body))
             ok    == /\ AllDigits(intS)
                      /\ AllDigits(fracS)
                      /\ Len(intS) + Len(fracS) > 0
             mag   == DigitsVal(intS) * 10
                        + (IF fracS = <<>> THEN 0 ELSE DigitVal(fracS[1]))
         IN  IF ok THEN [ok |-> TRUE, val |-> IF neg THEN 0 - mag ELSE mag]
             ELSE [ok |-> FALSE, val |-> 0]

\* Math.Round(x): nearest integer, a midpoint goes to the even neighbour
MathRound(x) ==
    LET q == x \div 10
        r == x % 10
    IN  IF r < 5 THEN q * 10
        ELSE IF r > 5 THEN (q + 1) * 10
        ELSE IF q % 2 = 0 THEN q * 10 ELSE (q + 1) * 10

(***************************************************************************)
(* Keys and labels of the wire format.                                      *)
(***************************************************************************)
Quote == "\""

\* regime
KeyRegime ==
    <<"r", "e", "g", "i", "m", "e">>

\* regime_code
KeyRegimeCode ==
    <<"r", "e", "g", "i", "m", "e", "_", "c", "o", "d", "e">>

\* spot_ndx
KeySpotNdx ==
    <<"s", "p", "o", "t", "_", "n", "d", "x">>

\* spot_spx
KeySpotSpx ==
    <<"s", "p", "o", "t", "_", "s", "p", "x">>

\* gamma_levels_ndx
KeyLevelsNdx ==
    <<"g", "a", "m", "m", "a", "_", "l", "e", "v", "e", "l", "s", "_", "n",
      "d", "x">>

\* gamma_levels_spx
KeyLevelsSpx ==
    <<"g", "a", "m", "m", "a", "_", "l", "e", "v", "e", "l", "s", "_", "s",
      "p", "x">>

\* strike
KeyStrike ==
    <<"s", "t", "r", "i", "k", "e">>

\* gex
KeyGex ==
    <<"g", "e", "x">>

\* WAITING
WAITING ==
    <<"W", "A", "I", "T", "I", "N", "G">>

\* UNKNOWN
UNKNOWN ==
    <<"U", "N", "K", "N", "O", "W", "N">>

\* ---
NoPrevious ==
    <<"-", "-", "-">>


(***************************************************************************)
(* Protocol decoder.                                                        *)
(***************************************************************************)
\* Variant of ExtractJsonValue without the quoted-string branch: every value
\* is read as a raw token up to the next ',' or '}'
ExtractJsonValueRaw(json, key) ==
    LET pattern == <<Quote>> \o key \o <<Quote, ":">>
        found   == IndexOf(json, pattern, 0)
        startIdx == ScanWhile(json, found + Len(pattern), {" ", "\t"})
    IN  IF found < 0 THEN Null
        ELSE IF startIdx >= Len(json) THEN Null
        ELSE LET endIdx == ScanUntil(json, startIdx, {",", "}"})
             IN  Trim(Substring(json, startIdx, endIdx - startIdx))

\* Variant of ExtractJsonValue that returns the empty text, not Null, when
\* nothing but white space follows the colon
ExtractJsonValueEmptyAtEnd(json, key) ==
    LET pattern == <<Quote>> \o key \o <<Quote, ":">>
        found   == IndexOf(json, pattern, 0)
        startIdx == ScanWhile(json, found + Len(pattern), {" ", "\t"})
    IN  IF found < 0 THEN Null
        ELSE IF startIdx >= Len(json) THEN <<>>
        ELSE IF At(json, startIdx) = Quote
             THEN LET endIdx == IndexOf(json, <<Quote>>, startIdx + 1)
                  IN  IF endIdx < 0 THEN Null
                      ELSE Substring(json, startIdx + 1, endIdx - startIdx - 1)
             ELSE LET endIdx == ScanUntil(json, startIdx, {",", "}"})
                  IN  Trim(Substring(json, startIdx, endIdx - startIdx))

\* ExtractJsonValue(json, key): the value after "key": or Null
ExtractJsonValue(json, key) ==
    LET pattern == <<Quote>> \o key \o <<Quote, ":">>
        found   == IndexOf(json, pattern, 0)
        startIdx == ScanWhile(json, found + Len(pattern), {" ", "\t"})
    IN  IF found < 0 THEN Null
        ELSE IF startIdx >= Len(json) THEN Null
        ELSE IF At(json, startIdx) = Quote
             THEN LET endIdx == IndexOf(json, <<Quote>>, startIdx + 1)
                  IN  IF endIdx < 0 THEN Null
                      ELSE Substring(json, startIdx + 1, endIdx - startIdx - 1)
             ELSE LET endIdx == ScanUntil(json, startIdx, {",", "}"})
                  IN  Trim(Substring(json, startIdx, endIdx - startIdx))

NumStart == {"0", "1", "2", "3", "4", "5", "6", "7", "8", "9", "-", "."}

NumBody == NumStart \cup {"e", "E", "+"}

\* ExtractNum(json, key): the number after "key", 0 when absent or unparsable
ExtractNum(json, key) ==
    LET keyIdx   == IndexOf(json, <<Quote>> \o key \o <<Quote>>, 0)
        from     == keyIdx + Len(key) + 3
        valStart == IF from >= Len(json) THEN from
                    ELSE ScanUntil(json, from, NumStart)
        valEnd   == ScanWhile(json, valStart, NumBody)
        parsed   == DoubleTryParse(Substring(json, valStart, valEnd - valStart))
    IN  IF keyIdx < 0 THEN 0
        ELSE IF valStart >= Len(json) THEN 0
        ELSE IF parsed.ok THEN parsed.val
        ELSE 0

\* Variant of ParseGammaLevelObject that takes a zero exposure as resistance
ParseGammaLevelObjectGe(objJson, spreadNow, levels) ==
    LET strike == ExtractNum(objJson, KeyStrike)
        gex    == ExtractNum(objJson, KeyGex)
    IN  IF strike > 0
        THEN Append(levels, [Strike       |-> strike,
                             Gex          |-> gex,
                             FuturesPrice |-> strike - spreadNow,
                             IsResistance |-> gex >= 0])
        ELSE levels

\* Variant of ParseGammaLevelObject without the test of the strike
ParseGammaLevelObjectAnyStrike(objJson, spreadNow, levels) ==
    LET strike == ExtractNum(objJson, KeyStrike)
        gex    == ExtractNum(objJson, KeyGex)
    IN  Append(levels, [Strike       |-> strike,
                        Gex          |-> gex,
                        FuturesPrice |-> strike - spreadNow,
                        IsResistance |-> gex > 0])

\* ParseGammaLevelObject(objJson): gammaLevels with the object's level added
\* when its strike is > 0
ParseGammaLevelObject(objJson, spreadNow, levels) ==
    LET strike == ExtractNum(objJson, KeyStrike)
        gex    == ExtractNum(objJson, KeyGex)
    IN  IF strike > 0
        THEN Append(levels, [Strike       |-> strike,
                             Gex          |-> gex,
                             FuturesPrice |-> strike - spreadNow,
                             IsResistance |-> gex > 0])
        ELSE levels

\* the scan for the bracket matching the one at arrStart: its index or -1
RECURSIVE FindArrEnd(_, _, _)
FindArrEnd(json, i, bracketCount) ==
    IF i >= Len(json) THEN -1
    ELSE IF At(json, i) = "[" THEN FindArrEnd(json, i + 1, bracketCount + 1)
    ELSE IF At(json, i) = "]"
         THEN IF bracketCount - 1 = 0 THEN i
              ELSE FindArrEnd(json, i + 1, bracketCount - 1)
    ELSE FindArrEnd(json, i + 1, bracketCount)

\* the scan of the array's content for {...} objects at brace depth 1
RECURSIVE ScanObjects(_, _, _, _, _, _)
ScanObjects(arrContent, i, braceCount, currentStart, spreadNow, levels) ==
    IF i >= Len(arrContent) THEN levels
    ELSE IF At(arrContent, i) = "{"
         THEN ScanObjects(arrContent, i + 1, braceCount + 1,
                          IF braceCount = 0 THEN i ELSE currentStart,
                          spreadNow, levels)
    ELSE IF At(arrContent, i) = "}"
         THEN IF braceCount - 1 = 0 /\ currentStart >= 0
              THEN ScanObjects(arrContent, i + 1, braceCount - 1, -1, spreadNow,
                       ParseGammaLevelObject(
                           Substring(arrContent, currentStart,
                                     i - currentStart + 1),
                           spreadNow, levels))
              ELSE ScanObjects(arrContent, i + 1, braceCount - 1, currentStart,
                               spreadNow, levels)
    ELSE ScanObjects(arrContent, i + 1, braceCount, currentStart, spreadNow,
                     levels)

LevelsKey(symbol) == IF symbol = "NDX" THEN KeyLevelsNdx ELSE KeyLevelsSpx

\* Variant of ParseGammaLevels that takes the end of the text for the closing
\* bracket when there is none
ParseGammaLevelsToEnd(json, symbol, spreadNow) ==
    LET keyIdx   ==
            IndexOf(json, <<Quote>> \o LevelsKey(symbol) \o <<Quote>>, 0)
        arrStart == IndexOf(json, <<"[">>, keyIdx)
        found    == FindArrEnd(json, arrStart, 0)
        arrEnd   == IF found < 0 THEN Len(json) ELSE found
        arrContent == Substring(json, arrStart + 1, arrEnd - arrStart - 1)
    IN  IF keyIdx < 0 THEN <<>>
        ELSE IF arrStart < 0 THEN <<>>
        ELSE IF IsNullOrWhiteSpace(arrContent) THEN <<>>
        ELSE ScanObjects(arrContent, 0, 0, -1, spreadNow, <<>>)

\* ParseGammaLevels(json): the list gammaLevels holds when it returns
\* (it is cleared first, then refilled from the affinity's array)
ParseGammaLevels(json, symbol, spreadNow) ==
    LET keyIdx   ==
            IndexOf(json, <<Quote>> \o LevelsKey(symbol) \o <<Quote>>, 0)
        arrStart == IndexOf(json, <<"[">>, keyIdx)
        arrEnd   == FindArrEnd(json, arrStart, 0)
        arrContent == Substring(json, arrStart + 1, arrEnd - arrStart - 1)
    IN  IF keyIdx < 0 THEN <<>>
        ELSE IF arrStart < 0 THEN <<>>
        ELSE IF arrEnd < 0 THEN <<>>
        ELSE IF IsNullOrWhiteSpace(arrContent) THEN <<>>
        ELSE ScanObjects(arrContent, 0, 0, -1, spreadNow, <<>>)

(***************************************************************************)
(* Inputs: the lines the producer may send and the host's instruments and  *)
(* prices.                                                                  *)
(***************************************************************************)
\* {"regime": "A","regime_code":1,"spot_ndx":100.6,"spot_spx":50.5,"gamma_levels_ndx":[{"strike":100,"gex":5},{"strike":110,"gex":-3}],"gamma_levels_spx":[{"strike":50,"gex":2}]}
Line1 ==
    <<"{", "\"", "r", "e", "g", "i", "m", "e", "\"", ":", " ", "\"", "A",
      "\"", ",", "\"", "r", "e", "g", "i", "m", "e", "_", "c", "o", "d",
      "e", "\"", ":", "1", ",", "\"", "s", "p", "o", "t", "_", "n", "d",
      "x", "\"", ":", "1", "0", "0", ".", "6", ",", "\"", "s", "p", "o",
      "t", "_", "s", "p", "x", "\"", ":", "5", "0", ".", "5", ",", "\"",
      "g", "a", "m", "m", "a", "_", "l", "e", "v", "e", "l", "s", "_", "n",
      "d", "x", "\"", ":", "[", "{", "\"", "s", "t", "r", "i", "k", "e",
      "\"", ":", "1", "0", "0", ",", "\"", "g", "e", "x", "\"", ":", "5",
      "}", ",", "{", "\"", "s", "t", "r", "i", "k", "e", "\"", ":", "1",
      "1", "0", ",", "\"", "g", "e", "x", "\"", ":", "-", "3", "}", "]",
      ",", "\"", "g", "a", "m", "m", "a", "_", "l", "e", "v", "e", "l",
      "s", "_", "s", "p", "x", "\"", ":", "[", "{", "\"", "s", "t", "r",
      "i", "k", "e", "\"", ":", "5", "0", ",", "\"", "g", "e", "x", "\"",
      ":", "2", "}", "]", "}">>

\* {"regime":"B","regime_code":2,"spot_ndx":110,"spot_spx":60,"gamma_levels_ndx":[{"strike":120,"gex":-1}],"gamma_levels_spx":[{"strike":60,"gex":-4}]}
Line2 ==
    <<"{", "\"", "r", "e", "g", "i", "m", "e", "\"", ":", "\"", "B", "\"",
      ",", "\"", "r", "e", "g", "i", "m", "e", "_", "c", "o", "d", "e",
      "\"", ":", "2", ",", "\"", "s", "p", "o", "t", "_", "n", "d", "x",
      "\"", ":", "1", "1", "0", ",", "\"", "s", "p", "o", "t", "_", "s",
      "p", "x", "\"", ":", "6", "0", ",", "\"", "g", "a", "m", "m", "a",
      "_", "l", "e", "v", "e", "l", "s", "_", "n", "d", "x", "\"", ":",
      "[", "{", "\"", "s", "t", "r", "i", "k", "e", "\"", ":", "1", "2",
      "0", ",", "\"", "g", "e", "x", "\"", ":", "-", "1", "}", "]", ",",
      "\"", "g", "a", "m", "m", "a", "_", "l", "e", "v", "e", "l", "s",
      "_", "s", "p", "x", "\"", ":", "[", "{", "\"", "s", "t", "r", "i",
      "k", "e", "\"", ":", "6", "0", ",", "\"", "g", "e", "x", "\"", ":",
      "-", "4", "}", "]", "}">>

\* {"regime":"WAITING","regime_code":"x","gamma_levels_ndx":[{"strike":0,"gex":1}],"gamma_levels_spx":[{"strike":1
Line3 ==
    <<"{", "\"", "r", "e", "g", "i", "m", "e", "\"", ":", "\"", "W", "A",
      "I", "T", "I", "N", "G", "\"", ",", "\"", "r", "e", "g", "i", "m",
      "e", "_", "c", "o", "d", "e", "\"", ":", "\"", "x", "\"", ",", "\"",
      "g", "a", "m", "m", "a", "_", "l", "e", "v", "e", "l", "s", "_", "n",
      "d", "x", "\"", ":", "[", "{", "\"", "s", "t", "r", "i", "k", "e",
      "\"", ":", "0", ",", "\"", "g", "e", "x", "\"", ":", "1", "}", "]",
      ",", "\"", "g", "a", "m", "m", "a", "_", "l", "e", "v", "e", "l",
      "s", "_", "s", "p", "x", "\"", ":", "[", "{", "\"", "s", "t", "r",
      "i", "k", "e", "\"", ":", "1">>

\* {"regime_code":3,"spot_ndx":-5,"spot_spx":abc}
Line4 ==
    <<"{", "\"", "r", "e", "g", "i", "m", "e", "_", "c", "o", "d", "e",
      "\"", ":", "3", ",", "\"", "s", "p", "o", "t", "_", "n", "d", "x",
      "\"", ":", "-", "5", ",", "\"", "s", "p", "o", "t", "_", "s", "p",
      "x", "\"", ":", "a", "b", "c", "}">>

Lines == <<Line1, Line2, Line3, Line4>>

\* MNQ
NameMNQ ==
    <<"M", "N", "Q">>

\* es
NameEs ==
    <<"e", "s">>

\* CL
NameCL ==
    <<"C", "L">>

\* NQ
NQ ==
    <<"N", "Q">>

\* MNQ
MNQ ==
    <<"M", "N", "Q">>

\* ES
ES ==
    <<"E", "S">>

\* MES
MES ==
    <<"M", "E", "S">>

InstrumentNames == {NameMNQ, NameEs, NameCL}

\* Close[0] of the host's bars, in tenths (98.0 and 100.4)
ClosePrices == {980, 1004}

\* String.ToUpper() on the letters of the instrument names
ToUpper(s) ==
    [i \in 1..Len(s) |->
        CASE s[i] = "e" -> "E" [] s[i] = "s" -> "S" [] s[i] = "n" -> "N"
          [] s[i] = "q" -> "Q" [] s[i] = "m" -> "M" [] OTHER -> s[i]]

\* String.Contains
Contains(s, pat) == IndexOf(s, pat, 0) >= 0

\* OnStateChange, State.DataLoaded: the affinity of the chart's instrument
IndexSymbolOf(name) ==
    LET instr == ToUpper(name)
    IN  IF Contains(instr, NQ) \/ Contains(instr, MNQ) THEN "NDX"
        ELSE IF Contains(instr, ES) \/ Contains(instr, MES) THEN "SPX"
        ELSE ""

(***************************************************************************)
(* State.                                                                   *)
(***************************************************************************)
VARIABLES
    State,          \* the host's lifecycle state of the indicator
    ChartControl,   \* TRUE when the host gave a chart (ChartControl != null)
    CurrentBar,     \* -1 before the first bar, 0 on it, 1 on any later bar
    hostPc,         \* the host's last call of StartListener / StopListener:
                    \* "none", "started", "joining" (it waits in Join), "stopped"
    indexSymbol, isRunning, listenerThread,
    liveThreads,    \* how many ClientLoop threads have started and not ended
    clients,        \* how many TcpClient objects are created and not closed
    pc,             \* where the client loop thread stands
    json,           \* the line ParseRegimeUpdate is working on (index in Lines)
    prevJson,       \* the line of the ParseRegimeUpdate call before it
    lockObj,        \* who is inside lock (lockObj): "free", "sock" or "ui"
    currentRegime, previousRegime, regimeCode, lastUpdate,
    indexPrice, futuresPrice, spread, lastClosePrice, gammaLevels,
    dispatcher,     \* ChartControl.Dispatcher: the posted operations, in order
    uiPc,           \* what the UI thread is running
    jsonCopy,       \* the posted operation being run: its line and number
    snap,           \* the locals OnRender has copied in this pass
    message,        \* the last line a catch handler wrote to the output
    received,       \* lines read from the socket so far (also the clock)
    stage1Of,       \* number of the line whose first lock region ran last
    postedOf,       \* number of the line whose update cycle completed last
    rawLevels,      \* the level entries a producer serialised (decoder runs)
    rawLine,        \* the fields a producer serialised as one line (decoder runs)
    decoded         \* what ExtractJsonValue returned for each scalar key

\* the two dashboards (web/main.js and the playground): the page's globals,
\* the browser's interval timers and the calls in flight to the backend
VARIABLES
    dashboard,      \* "none" (no page), "web" or "playground"
    initPc,         \* init(): "none", "settings" / "symbols" (at an await), "done"
    calls,          \* init and saveSettings calls so far
    refresh_interval,   \* currentSettings.refresh_interval
    refreshTimer, countdownTimer, timeLeft,
    timers,         \* the intervals the browser has active: [id, kind, period]
    timerIds,       \* the last timer id the browser gave out
    selected,       \* document.getElementById('symbolSelector').value
    loads,          \* loadSymbol calls started so far
    pending,        \* loadSymbol calls waiting for eel.get_dashboard_data
    failed,         \* loadSymbol calls whose answer had data.error
    cachedData,     \* cachedData: the call and symbol its data came from
    rendered,       \* what renderDashboard drew last
    feed,           \* the children of #activityFeed, first child first
    feedCount,      \* entries inserted into the feed so far
    eventsLeft,     \* how many more events the backend sends
    compassHistory

dashVars == <<dashboard, initPc, calls, refresh_interval, refreshTimer,
              countdownTimer, timeLeft, timers, timerIds, selected, loads,
              pending, failed, cachedData, rendered, feed, feedCount, eventsLeft,
              compassHistory>>

hostVars   == <<State, ChartControl, CurrentBar, indexSymbol, hostPc>>
loopVars   == <<isRunning, listenerThread, liveThreads, clients, pc, json,
                prevJson, received>>
regimeVars == <<currentRegime, previousRegime, regimeCode, lastUpdate>>
priceVars  == <<indexPrice, futuresPrice, spread, gammaLevels>>
uiVars     == <<dispatcher, uiPc, jsonCopy, snap>>
traceVars  == <<message, stage1Of, postedOf, rawLevels, rawLine, decoded>>
vars == <<hostVars, loopVars, lockObj, regimeVars, priceVars, lastClosePrice,
          uiVars, traceVars, dashVars>>

NoJob == [line |-> 0, seq |-> 0]
NoSnap == [regime |-> Null]

\* cachedData = null
NoData == [call |-> 0, symbol |-> ""]

\* the "Listening..." child the page shows before the first event
Placeholder == [n |-> 0, text |-> "Listening"]

\* no dashboard page is open
DashboardIdle ==
    /\ dashboard = "none"
    /\ initPc = "none"
    /\ calls = 0
    /\ refresh_interval = 60
    /\ refreshTimer = 0
    /\ countdownTimer = 0
    /\ timeLeft = 0
    /\ timers = {}
    /\ timerIds = 0
    /\ selected = ""
    /\ loads = 0
    /\ pending = {}
    /\ failed = {}
    /\ cachedData = NoData
    /\ rendered = NoData
    /\ feed = <<>>
    /\ feedCount = 0
    /\ eventsLeft = 0
    /\ compassHistory = [Traders |-> <<>>, Whale |-> <<>>]

\* the fields of the indicator as declared
IndicatorIdle ==
    /\ State = "SetDefaults"
    /\ hostPc = "none"
    /\ ChartControl = FALSE
    /\ CurrentBar = -1
    /\ indexSymbol = ""
    /\ isRunning = FALSE
    /\ listenerThread = "null"
    /\ liveThreads = 0
    /\ clients = 0
    /\ pc = "none"
    /\ json = 0
    /\ prevJson = 0
    /\ received = 0
    /\ lockObj = "free"
    /\ currentRegime = WAITING
    /\ previousRegime = NoPrevious
    /\ regimeCode = 0
    /\ lastUpdate = 0
    /\ indexPrice = 0
    /\ futuresPrice = 0
    /\ spread = 0
    /\ lastClosePrice = 0
    /\ gammaLevels = <<>>
    /\ dispatcher = <<>>
    /\ uiPc = "idle"
    /\ jsonCopy = NoJob
    /\ snap = NoSnap
    /\ message = "none"
    /\ stage1Of = 0
    /\ postedOf = 0
    /\ rawLevels = <<>>
    /\ rawLine = <<>>
    /\ decoded = <<>>

Init == IndicatorIdle /\ DashboardIdle

(***************************************************************************)
(* Host lifecycle: OnStateChange, StartListener, StopListener.              *)
(***************************************************************************)
\* Variant of StartListener that does not test for a live thread
StartListenerUnchecked ==
    /\ isRunning' = TRUE
    /\ listenerThread' = "alive"
    /\ liveThreads' = liveThreads + 1
    /\ pc' = "loop"

StartListener ==
    IF listenerThread = "alive"
    THEN UNCHANGED <<isRunning, listenerThread, liveThreads, clients, pc>>
    ELSE /\ isRunning' = TRUE
         /\ listenerThread' = "alive"
         /\ liveThreads' = liveThreads + 1
         /\ pc' = "loop"

\* Join(1000) only waits: the flag is all StopListener changes
StopListener == isRunning' = FALSE

OnStateChangeDataLoaded ==
    /\ State = "SetDefaults"
    /\ \E name \in InstrumentNames, chart \in BOOLEAN :
          /\ indexSymbol' = IndexSymbolOf(name)
          /\ ChartControl' = chart
    /\ State' = "DataLoaded"
    /\ StartListener
    /\ hostPc' = "started"
    /\ UNCHANGED <<CurrentBar, json, prevJson, received, clients, lockObj,
                   regimeVars, priceVars, lastClosePrice, uiVars, traceVars,
                   dashVars>>

OnStateChangeTerminated ==
    /\ State = "DataLoaded"
    /\ State' = "Terminated"
    /\ StopListener
    /\ hostPc' = "stopped"
    /\ UNCHANGED <<ChartControl, CurrentBar, indexSymbol, listenerThread,
                   liveThreads, clients, pc, json, prevJson, received,
                   lockObj, regimeVars, priceVars, lastClosePrice, uiVars,
                   traceVars, dashVars>>

(***************************************************************************)
(* StartListener and StopListener called in any order on a loaded           *)
(* indicator; StopListener in two steps, the flag and the bounded wait.     *)
(***************************************************************************)
StartListenerCall ==
    /\ State = "DataLoaded"
    /\ hostPc # "joining"
    /\ StartListener
    /\ hostPc' = "started"
    /\ UNCHANGED <<State, ChartControl, CurrentBar, indexSymbol, json,
                   prevJson, received, clients, lockObj, regimeVars,
                   priceVars, lastClosePrice, uiVars, traceVars, dashVars>>

\* isRunning = false; if the thread is alive the caller goes into Join(1000)
StopListenerBegin ==
    /\ State = "DataLoaded"
    /\ hostPc # "joining"
    /\ StopListener
    /\ hostPc' = IF listenerThread = "alive" THEN "joining" ELSE "stopped"
    /\ UNCHANGED <<State, ChartControl, CurrentBar, indexSymbol,
                   listenerThread, liveThreads, clients, pc, json, prevJson,
                   received, lockObj, regimeVars, priceVars, lastClosePrice,
                   uiVars, traceVars, dashVars>>

\* Variant of StopListenerJoin that waits with Join(), without a timeout
StopListenerJoinNoTimeout ==
    /\ hostPc = "joining"
    /\ listenerThread # "alive"
    /\ hostPc' = "stopped"
    /\ UNCHANGED <<State, ChartControl, CurrentBar, indexSymbol, loopVars,
                   lockObj, regimeVars, priceVars, lastClosePrice, uiVars,
                   traceVars, dashVars>>

\* Join(1000) returns: the thread ended or the 1000 ms elapsed
StopListenerJoin ==
    /\ hostPc = "joining"
    /\ hostPc' = "stopped"
    /\ UNCHANGED <<State, ChartControl, CurrentBar, indexSymbol, loopVars,
                   lockObj, regimeVars, priceVars, lastClosePrice, uiVars,
                   traceVars, dashVars>>

(***************************************************************************)
(* ClientLoop, on the listener thread.                                      *)
(***************************************************************************)
\* while (isRunning) of the outer loop
LoopTest ==
    /\ pc = "loop"
    /\ IF isRunning
       THEN pc' = "connect" /\ UNCHANGED <<listenerThread, liveThreads>>
       ELSE /\ pc' = "exited"
            /\ listenerThread' = "dead"
            /\ liveThreads' = liveThreads - 1
    /\ UNCHANGED <<hostVars, isRunning, json, prevJson, received, clients,
                   lockObj, regimeVars, priceVars, lastClosePrice, uiVars,
                   traceVars, dashVars>>

\* Variant of Connect whose failure is not caught and ends the thread
ConnectUncaught ==
    /\ pc = "connect"
    /\ \E connected \in BOOLEAN :
          IF connected
          THEN pc' = "inner" /\ UNCHANGED <<listenerThread, liveThreads>>
          ELSE /\ pc' = "exited"
               /\ listenerThread' = "dead"
               /\ liveThreads' = liveThreads - 1
    /\ clients' = clients + 1
    /\ UNCHANGED <<hostVars, isRunning, json, prevJson, received, lockObj,
                   regimeVars, priceVars, lastClosePrice, uiVars, traceVars,
                   dashVars>>

\* client = new TcpClient(); client.Connect: it returns, or throws into the
\* catch at the loop's end
Connect ==
    /\ pc = "connect"
    /\ \E connected \in BOOLEAN :
          pc' = IF connected THEN "inner" ELSE "finally"
    /\ clients' = clients + 1
    /\ UNCHANGED <<hostVars, isRunning, listenerThread, liveThreads, json,
                   prevJson, received, lockObj, regimeVars, priceVars,
                   lastClosePrice, uiVars, traceVars, dashVars>>

\* Variant of InnerTest that reads on without testing the flag
InnerTestNoFlag ==
    /\ pc = "inner"
    /\ pc' = "read"
    /\ UNCHANGED <<hostVars, isRunning, listenerThread, liveThreads, clients,
                   json, prevJson, received, lockObj, regimeVars, priceVars,
                   lastClosePrice, uiVars, traceVars, dashVars>>

\* while (isRunning) of the read loop
InnerTest ==
    /\ pc = "inner"
    /\ pc' = IF isRunning THEN "read" ELSE "finally"
    /\ UNCHANGED <<hostVars, isRunning, listenerThread, liveThreads, clients,
                   json, prevJson, received, lockObj, regimeVars, priceVars,
                   lastClosePrice, uiVars, traceVars, dashVars>>

\* reader.ReadLine(): a line to parse, an empty line, or the end of the
\* stream / an IOException
ReadLine ==
    /\ pc = "read"
    /\ \/ /\ received < MaxLines
          /\ \E l \in 1..Len(Lines) : json' = l
          /\ prevJson' = json
          /\ received' = received + 1
          /\ pc' = "parse"
       \/ /\ pc' = "inner"
          /\ UNCHANGED <<json, prevJson, received>>
       \/ /\ pc' = "finally"
          /\ UNCHANGED <<json, prevJson, received>>
    /\ UNCHANGED <<hostVars, isRunning, listenerThread, liveThreads, clients,
                   lockObj, regimeVars, priceVars, lastClosePrice, uiVars,
                   traceVars, dashVars>>

\* Variant of Finally that leaves the loop once the connection is closed
FinallyEndsLoop ==
    /\ pc = "finally"
    /\ pc' = "exited"
    /\ listenerThread' = "dead"
    /\ liveThreads' = liveThreads - 1
    /\ clients' = clients - 1
    /\ UNCHANGED <<hostVars, isRunning, json, prevJson, received, lockObj,
                   regimeVars, priceVars, lastClosePrice, uiVars, traceVars,
                   dashVars>>

\* Variant of Finally without the Close
FinallyLeavesOpen ==
    /\ pc = "finally"
    /\ pc' = "retry"
    /\ UNCHANGED <<hostVars, isRunning, listenerThread, liveThreads, clients,
                   json, prevJson, received, lockObj, regimeVars, priceVars,
                   lastClosePrice, uiVars, traceVars, dashVars>>

\* finally { client?.Close(); }
Finally ==
    /\ pc = "finally"
    /\ pc' = "retry"
    /\ clients' = clients - 1
    /\ UNCHANGED <<hostVars, isRunning, listenerThread, liveThreads, json,
                   prevJson, received, lockObj, regimeVars, priceVars,
                   lastClosePrice, uiVars, traceVars, dashVars>>

\* Variant of RetryTest that goes back to the loop test without the sleep
RetryTestNoDelay ==
    /\ pc = "retry"
    /\ pc' = "loop"
    /\ UNCHANGED <<hostVars, isRunning, listenerThread, liveThreads, clients,
                   json, prevJson, received, lockObj, regimeVars, priceVars,
                   lastClosePrice, uiVars, traceVars, dashVars>>

\* if (isRunning) Thread.Sleep(5000)
RetryTest ==
    /\ pc = "retry"
    /\ pc' = IF isRunning THEN "sleep" ELSE "loop"
    /\ UNCHANGED <<hostVars, isRunning, listenerThread, liveThreads, clients,
                   json, prevJson, received, lockObj, regimeVars, priceVars,
                   lastClosePrice, uiVars, traceVars, dashVars>>

Sleep ==
    /\ pc = "sleep"
    /\ pc' = "loop"
    /\ UNCHANGED <<hostVars, isRunning, listenerThread, liveThreads, clients,
                   json, prevJson, received, lockObj, regimeVars, priceVars,
                   lastClosePrice, uiVars, traceVars, dashVars>>

(***************************************************************************)
(* ParseRegimeUpdate, first part: on the listener thread.                   *)
(***************************************************************************)
\* Variant of NewRegime without the "UNKNOWN" default
NewRegimeNoDefault(line) == ExtractJsonValue(line, KeyRegime)

\* newRegime = ExtractJsonValue(json, "regime") ?? "UNKNOWN"
NewRegime(line) ==
    LET v == ExtractJsonValue(line, KeyRegime)
    IN  IF v = Null THEN UNKNOWN ELSE v

\* Variant of TrackPrevious that does not exempt the "WAITING" sentinel
TrackPreviousNoSentinel(current, previous, newRegime) ==
    IF current # newRegime THEN current ELSE previous

\* Variant of TrackPrevious that shifts on a repeated label too
TrackPreviousNoCompare(current, previous, newRegime) ==
    IF current # WAITING THEN current ELSE previous

\* previousRegime after the "track previous regime" test
TrackPrevious(current, previous, newRegime) ==
    IF current # WAITING /\ current # newRegime THEN current ELSE previous

\* regimeCode after int.TryParse(ExtractJsonValue(json, "regime_code"), out code)
ParseCode(line) == IntTryParse(ExtractJsonValue(line, KeyRegimeCode)).val

\* indexPrice after the affinity's double.TryParse(..., out ndx / spx)
ParseIndexPrice(line, symbol, old) ==
    IF symbol = "NDX" THEN DoubleTryParse(ExtractJsonValue(line, KeySpotNdx)).val
    ELSE IF symbol = "SPX"
         THEN DoubleTryParse(ExtractJsonValue(line, KeySpotSpx)).val
    ELSE old

\* Variant of SockLock that enters without waiting for the lock
SockLockUnguarded ==
    /\ pc = "parse"
    /\ lockObj' = "sock"
    /\ pc' = "stage1"
    /\ UNCHANGED <<hostVars, isRunning, listenerThread, liveThreads, clients,
                   json, prevJson, received, regimeVars, priceVars,
                   lastClosePrice, uiVars, traceVars, dashVars>>

\* lock (lockObj) of the listener thread is entered
SockLock ==
    /\ pc = "parse"
    /\ lockObj = "free"
    /\ lockObj' = "sock"
    /\ pc' = "stage1"
    /\ UNCHANGED <<hostVars, isRunning, listenerThread, liveThreads, clients,
                   json, prevJson, received, regimeVars, priceVars,
                   lastClosePrice, uiVars, traceVars, dashVars>>

\* Variant of SockStage1 that posts from inside the lock region
SockStage1KeepsLock ==
    /\ pc = "stage1"
    /\ previousRegime' =
          TrackPrevious(currentRegime, previousRegime, NewRegime(Lines[json]))
    /\ currentRegime' = NewRegime(Lines[json])
    /\ regimeCode' = ParseCode(Lines[json])
    /\ lastUpdate' = received
    /\ indexPrice' = ParseIndexPrice(Lines[json], indexSymbol, indexPrice)
    /\ pc' = "post"
    /\ stage1Of' = received
    /\ UNCHANGED <<hostVars, isRunning, listenerThread, liveThreads, clients,
                   json, prevJson, received, lockObj, futuresPrice, spread,
                   gammaLevels, lastClosePrice, uiVars, message, postedOf,
                   rawLevels, rawLine, decoded, dashVars>>

\* the body of that lock region, and its exit
SockStage1 ==
    /\ pc = "stage1"
    /\ previousRegime' =
          TrackPrevious(currentRegime, previousRegime, NewRegime(Lines[json]))
    /\ currentRegime' = NewRegime(Lines[json])
    /\ regimeCode' = ParseCode(Lines[json])
    /\ lastUpdate' = received
    /\ indexPrice' = ParseIndexPrice(Lines[json], indexSymbol, indexPrice)
    /\ lockObj' = "free"
    /\ pc' = "post"
    /\ stage1Of' = received
    /\ UNCHANGED <<hostVars, isRunning, listenerThread, liveThreads, clients,
                   json, prevJson, received, futuresPrice, spread,
                   gammaLevels, lastClosePrice, uiVars, message, postedOf,
                   rawLevels, rawLine, decoded, dashVars>>

\* Variant of SockPost that posts nothing while an operation is still queued
SockPostCoalesce ==
    /\ pc = "post"
    /\ IF ChartControl /\ dispatcher = <<>>
       THEN \E throws \in BOOLEAN :
               IF throws
               THEN /\ message' = "Parse error"
                    /\ postedOf' = received
                    /\ UNCHANGED dispatcher
               ELSE /\ dispatcher' =
                          Append(dispatcher, [line |-> json, seq |-> received])
                    /\ UNCHANGED <<message, postedOf>>
       ELSE /\ postedOf' = received
            /\ UNCHANGED <<dispatcher, message>>
    /\ pc' = "inner"
    /\ UNCHANGED <<hostVars, isRunning, listenerThread, liveThreads, clients,
                   json, prevJson, received, lockObj, regimeVars, priceVars,
                   lastClosePrice, uiPc, jsonCopy, snap, stage1Of, rawLevels,
                   rawLine, decoded, dashVars>>

\* if (ChartControl != null) ChartControl.Dispatcher.InvokeAsync(...): the
\* operation is queued, or the call throws into the "Parse error" handler
SockPost ==
    /\ pc = "post"
    /\ IF ChartControl
       THEN \E throws \in BOOLEAN :
               IF throws
               THEN /\ message' = "Parse error"
                    /\ postedOf' = received
                    /\ UNCHANGED dispatcher
               ELSE /\ dispatcher' =
                          Append(dispatcher, [line |-> json, seq |-> received])
                    /\ UNCHANGED <<message, postedOf>>
       ELSE /\ postedOf' = received
            /\ UNCHANGED <<dispatcher, message>>
    /\ pc' = "inner"
    /\ UNCHANGED <<hostVars, isRunning, listenerThread, liveThreads, clients,
                   json, prevJson, received, lockObj, regimeVars, priceVars,
                   lastClosePrice, uiPc, jsonCopy, snap, stage1Of, rawLevels,
                   rawLine, decoded, dashVars>>

(***************************************************************************)
(* ParseRegimeUpdate, second part: the operation posted to the dispatcher,  *)
(* run on the UI thread.                                                    *)
(***************************************************************************)
\* Variant of RecomputeSpread that recomputes whatever the index price is
RecomputeSpreadUnguarded(index, futures, old) ==
    MathRound(index) - MathRound(futures)

\* Variant of RecomputeSpread that rounds the difference, not each price
RecomputeSpreadRoundAfter(index, futures, old) ==
    IF index > 0 THEN MathRound(index - futures) ELSE old

\* spread after "if (indexPrice > 0) spread = Round(index) - Round(futures)"
RecomputeSpread(index, futures, old) ==
    IF index > 0 THEN MathRound(index) - MathRound(futures) ELSE old

\* the dispatcher starts its next operation, which enters lock (lockObj)
UiLock ==
    /\ uiPc = "idle"
    /\ dispatcher # <<>>
    /\ lockObj = "free"
    /\ lockObj' = "ui"
    /\ jsonCopy' = Head(dispatcher)
    /\ dispatcher' = Tail(dispatcher)
    /\ uiPc' = "work"
    /\ UNCHANGED <<hostVars, loopVars, regimeVars, priceVars, lastClosePrice,
                   snap, traceVars, dashVars>>

\* Variant of UiStage2 that adjusts the levels by the spread as it stood
\* before this operation recomputed it
UiStage2StaleSpread ==
    /\ uiPc = "work"
    /\ IF lastClosePrice > 0
       THEN /\ futuresPrice' = lastClosePrice
            /\ spread' = RecomputeSpread(indexPrice, lastClosePrice, spread)
            /\ gammaLevels' =
                  ParseGammaLevels(Lines[jsonCopy.line], indexSymbol, spread)
            /\ \E throws \in BOOLEAN :
                  message' = IF throws THEN "Failed to process update"
                             ELSE "update"
       ELSE UNCHANGED <<futuresPrice, spread, gammaLevels, message>>
    /\ lockObj' = "free"
    /\ uiPc' = "idle"
    /\ jsonCopy' = NoJob
    /\ postedOf' = jsonCopy.seq
    /\ UNCHANGED <<hostVars, loopVars, regimeVars, indexPrice, lastClosePrice,
                   dispatcher, snap, stage1Of, rawLevels, rawLine, decoded,
                   dashVars>>

\* Variant of UiStage2 that adds the line's levels to the list without
\* clearing it first
UiStage2Merge ==
    /\ uiPc = "work"
    /\ IF lastClosePrice > 0
       THEN /\ futuresPrice' = lastClosePrice
            /\ spread' = RecomputeSpread(indexPrice, lastClosePrice, spread)
            /\ gammaLevels' =
                  gammaLevels \o
                  ParseGammaLevels(Lines[jsonCopy.line], indexSymbol, spread')
            /\ \E throws \in BOOLEAN :
                  message' = IF throws THEN "Failed to process update"
                             ELSE "update"
       ELSE UNCHANGED <<futuresPrice, spread, gammaLevels, message>>
    /\ lockObj' = "free"
    /\ uiPc' = "idle"
    /\ jsonCopy' = NoJob
    /\ postedOf' = jsonCopy.seq
    /\ UNCHANGED <<hostVars, loopVars, regimeVars, indexPrice, lastClosePrice,
                   dispatcher, snap, stage1Of, rawLevels, rawLine, decoded,
                   dashVars>>

\* the body of that lock region, and its exit; the host calls at its end
\* (the output window, ForceRefresh) return or throw into the handler
UiStage2 ==
    /\ uiPc = "work"
    /\ IF lastClosePrice > 0
       THEN /\ futuresPrice' = lastClosePrice
            /\ spread' = RecomputeSpread(indexPrice, lastClosePrice, spread)
            /\ gammaLevels' =
                  ParseGammaLevels(Lines[jsonCopy.line], indexSymbol, spread')
            /\ \E throws \in BOOLEAN :
                  message' = IF throws THEN "Failed to process update"
                             ELSE "update"
       ELSE UNCHANGED <<futuresPrice, spread, gammaLevels, message>>
    /\ lockObj' = "free"
    /\ uiPc' = "idle"
    /\ jsonCopy' = NoJob
    /\ postedOf' = jsonCopy.seq
    /\ UNCHANGED <<hostVars, loopVars, regimeVars, indexPrice, lastClosePrice,
                   dispatcher, snap, stage1Of, rawLevels, rawLine, decoded,
                   dashVars>>

(***************************************************************************)
(* Price sampler and render pass.                                           *)
(***************************************************************************)
\* Variant of OnBarUpdate that stores the close on the first bar too
OnBarUpdateFirstBar ==
    /\ State = "DataLoaded"
    /\ \E close \in ClosePrices, newBar \in BOOLEAN :
          /\ CurrentBar' = IF CurrentBar = -1 THEN 0
                           ELSE IF newBar THEN 1 ELSE CurrentBar
          /\ lastClosePrice' = close
    /\ UNCHANGED <<State, ChartControl, indexSymbol, hostPc, loopVars,
                   lockObj, regimeVars, priceVars, uiVars, traceVars, dashVars>>

\* OnBarUpdate: the host calls it on every price change of the current bar
OnBarUpdate ==
    /\ State = "DataLoaded"
    /\ \E close \in ClosePrices, newBar \in BOOLEAN :
          /\ CurrentBar' = IF CurrentBar = -1 THEN 0
                           ELSE IF newBar THEN 1 ELSE CurrentBar
          /\ lastClosePrice' = IF CurrentBar' > 0 THEN close ELSE lastClosePrice
    /\ UNCHANGED <<State, ChartControl, indexSymbol, hostPc, loopVars,
                   lockObj, regimeVars, priceVars, uiVars, traceVars, dashVars>>

\* OnRender, first lock region: the scalars are copied
OnRenderScalars ==
    /\ State = "DataLoaded"
    /\ ChartControl
    /\ uiPc = "idle"
    /\ lockObj = "free"
    /\ snap' = [regime |-> currentRegime, prevRegime |-> previousRegime,
                code |-> regimeCode, update |-> lastUpdate,
                idx |-> indexPrice, fut |-> futuresPrice, sprd |-> spread,
                idxSym |-> indexSymbol,
                stage1Of |-> stage1Of, postedOf |-> postedOf]
    /\ uiPc' = "panel"
    /\ UNCHANGED <<hostVars, loopVars, lockObj, regimeVars, priceVars,
                   lastClosePrice, dispatcher, jsonCopy, traceVars, dashVars>>

\* OnRender, second lock region: the level list is copied (levelsCopy is
\* gammaLevels as it stands in this step) and drawn, and OnRender returns:
\* its locals are gone
OnRenderLevels ==
    /\ uiPc = "panel"
    /\ lockObj = "free"
    /\ snap' = NoSnap
    /\ uiPc' = "idle"
    /\ UNCHANGED <<hostVars, loopVars, lockObj, regimeVars, priceVars,
                   lastClosePrice, dispatcher, jsonCopy, traceVars, dashVars>>

Next ==
    \/ OnStateChangeDataLoaded
    \/ OnStateChangeTerminated
    \/ LoopTest
    \/ Connect
    \/ InnerTest
    \/ ReadLine
    \/ Finally
    \/ RetryTest
    \/ Sleep
    \/ SockLock
    \/ SockStage1
    \/ SockPost
    \/ UiLock
    \/ UiStage2
    \/ OnBarUpdate
    \/ OnRenderScalars
    \/ OnRenderLevels

Spec == Init /\ [][Next]_vars

\* The listener's life under any order of StartListener / StopListener
\* calls: the loop, the lines it applies and the operations it posts.
NextLifecycle ==
    \/ OnStateChangeDataLoaded
    \/ StartListenerCall
    \/ StopListenerBegin
    \/ StopListenerJoin
    \/ LoopTest
    \/ Connect
    \/ InnerTest
    \/ ReadLine
    \/ Finally
    \/ RetryTest
    \/ Sleep
    \/ SockLock
    \/ SockStage1
    \/ SockPost
    \/ UiLock
    \/ UiStage2

SpecLifecycle == Init /\ [][NextLifecycle]_vars

\* The bounded Join is all that is assumed to make progress: the listener
\* thread may stay in a blocking call for ever.
SpecJoinFair == SpecLifecycle /\ WF_vars(StopListenerJoin)

\* one step of the listener thread, wherever it stands outside its lock
\* region
ListenerThreadStep ==
    \/ LoopTest \/ Connect \/ InnerTest \/ ReadLine \/ Finally
    \/ RetryTest \/ Sleep \/ SockLock \/ SockPost

\* one step of the dispatcher on the UI thread
DispatcherStep == UiLock \/ UiStage2

\* Both threads are scheduled, and every blocking call of the listener
\* thread (Connect, ReadLine, Sleep, lock) returns.  SockStage1 is enabled
\* exactly while pc = "stage1" and leaves it, so its weak fairness is the
\* third conjunct.
SpecLifecycleFair ==
    /\ SpecLifecycle
    /\ WF_vars(StopListenerJoin)
    /\ WF_vars(ListenerThreadStep)
    /\ []<>(pc # "stage1")
    /\ WF_vars(DispatcherStep)

(***************************************************************************)
(* The level decoder and adjuster on its own: ParseGammaLevels applied to   *)
(* the text of any list of up to MaxLevels raw entries, under any spread.   *)
(***************************************************************************)
\* numbers as a producer writes them, with their value in tenths
RawStrikes ==
    { [text |-> <<"1", "0", "0">>, val |-> 1000],
      [text |-> <<"1", "1", "0">>, val |-> 1100],
      [text |-> <<"9", "9", ".", "5">>, val |-> 995],
      [text |-> <<"0">>, val |-> 0],
      [text |-> <<"-", "5">>, val |-> -50] }

RawExposures ==
    { [text |-> <<"5", "0", "0", "0">>, val |-> 50000],
      [text |-> <<"-", "3", "0", "0", "0">>, val |-> -30000],
      [text |-> <<"0">>, val |-> 0] }

RawEntries == [strike : RawStrikes, gex : RawExposures]

RawLists == UNION { [1..n -> RawEntries] : n \in 0..MaxLevels }

Spreads == {-15, 0, 20}

\* {"strike":S,"gex":G}
SerialiseLevel(e) ==
    <<"{", Quote>> \o KeyStrike \o <<Quote, ":">> \o e.strike.text
       \o <<",", Quote>> \o KeyGex \o <<Quote, ":">> \o e.gex.text \o <<"}">>

RECURSIVE SerialiseLevels(_)
SerialiseLevels(list) ==
    IF list = <<>> THEN <<>>
    ELSE IF Len(list) = 1 THEN SerialiseLevel(list[1])
    ELSE SerialiseLevel(list[1]) \o <<",">> \o SerialiseLevels(Tail(list))

\* {"regime":"A","gamma_levels_xxx":[...]} for the affinity
SerialiseLine(list, symbol) ==
    <<"{", Quote>> \o KeyRegime \o <<Quote, ":", Quote, "A", Quote, ",", Quote>>
       \o LevelsKey(symbol) \o <<Quote, ":", "[">>
       \o SerialiseLevels(list) \o <<"]", "}">>

InitAdjust ==
    /\ rawLevels \in RawLists
    /\ rawLine = <<>>
    /\ decoded = <<>>
    /\ DashboardIdle
    /\ spread \in Spreads
    /\ indexSymbol \in {"NDX", "SPX"}
    /\ State = "DataLoaded"
    /\ hostPc = "started"
    /\ ChartControl = TRUE
    /\ CurrentBar = -1
    /\ isRunning = FALSE
    /\ listenerThread = "null"
    /\ liveThreads = 0
    /\ clients = 0
    /\ pc = "none"
    /\ json = 0
    /\ prevJson = 0
    /\ received = 0
    /\ lockObj = "free"
    /\ currentRegime = WAITING
    /\ previousRegime = NoPrevious
    /\ regimeCode = 0
    /\ lastUpdate = 0
    /\ indexPrice = 0
    /\ futuresPrice = 0
    /\ lastClosePrice = 0
    /\ gammaLevels = <<>>
    /\ dispatcher = <<>>
    /\ uiPc = "idle"
    /\ jsonCopy = NoJob
    /\ snap = NoSnap
    /\ message = "none"
    /\ stage1Of = 0
    /\ postedOf = 0

\* ParseGammaLevels(jsonCopy) on the text of the raw list
ParseGammaLevelsCall ==
    /\ uiPc = "idle"
    /\ gammaLevels' =
          ParseGammaLevels(SerialiseLine(rawLevels, indexSymbol), indexSymbol,
                           spread)
    /\ uiPc' = "parsed"
    /\ UNCHANGED <<hostVars, loopVars, lockObj, regimeVars, indexPrice,
                   futuresPrice, spread, lastClosePrice, dispatcher, jsonCopy,
                   snap, traceVars, dashVars>>

SpecAdjust == InitAdjust /\ [][ParseGammaLevelsCall]_vars

(***************************************************************************)
(* The posted operation on its own: it is about to run for a line whose     *)
(* first region has run, with any index price a line may have left and any  *)
(* price the host may have sampled.                                         *)
(***************************************************************************)
\* 0, -5, 50.5, 99.4, 100.5, 100.6, 101.5, 15000.6
IndexPrices == {0, -50, 505, 994, 1005, 1006, 1015, 150006}

\* 0 (none yet), 98, 99.5, 100.4, 100.5, 15002.1
SampledPrices == {0, 980, 995, 1004, 1005, 150021}

\* spreads an earlier operation may have stored: 0, 3
StoredSpreads == {0, 30}

InitSpread ==
    /\ indexPrice \in IndexPrices
    /\ lastClosePrice \in SampledPrices
    /\ spread \in StoredSpreads
    /\ indexSymbol \in {"NDX", "SPX"}
    /\ State = "DataLoaded"
    /\ hostPc = "started"
    /\ ChartControl = TRUE
    /\ CurrentBar = IF lastClosePrice > 0 THEN 1 ELSE 0
    /\ isRunning = TRUE
    /\ listenerThread = "alive"
    /\ liveThreads = 1
    /\ clients = 1
    /\ pc = "inner"
    /\ json = 1
    /\ prevJson = 0
    /\ received = 1
    /\ lockObj = "ui"
    /\ currentRegime = NewRegime(Lines[1])
    /\ previousRegime = NoPrevious
    /\ regimeCode = ParseCode(Lines[1])
    /\ lastUpdate = 1
    /\ futuresPrice = 0
    /\ gammaLevels = <<>>
    /\ dispatcher = <<>>
    /\ uiPc = "work"
    /\ jsonCopy = [line |-> 1, seq |-> 1]
    /\ snap = NoSnap
    /\ message = "none"
    /\ stage1Of = 1
    /\ postedOf = 0
    /\ rawLevels = <<>>
    /\ rawLine = <<>>
    /\ decoded = <<>>
    /\ DashboardIdle

SpecSpread == InitSpread /\ [][UiStage2]_vars

(***************************************************************************)
(* The decoder on its own: one line, put together from any of the ways a    *)
(* producer may write (or fail to write) each field, goes through every     *)
(* decoding call ParseRegimeUpdate and its posted operation make.           *)
(***************************************************************************)
\* the value text of "regime" (ok: a well-formed label, val)
RawRegimes ==
    { \* absent: (no such field)
      [name |-> "absent", ok |-> FALSE,
        val |-> <<>>,
        text |-> <<>>],
      \* quoted: "A"
      [name |-> "quoted", ok |-> TRUE,
        val |-> <<"A">>,
        text |-> <<Quote, "A", Quote>>],
      \* spaced:  "B"
      [name |-> "spaced", ok |-> TRUE,
        val |-> <<"B">>,
        text |-> <<" ", Quote, "B", Quote>>],
      \* bare: C
      [name |-> "bare", ok |-> TRUE,
        val |-> <<"C">>,
        text |-> <<"C">>],
      \* open: "D
      [name |-> "open", ok |-> FALSE,
        val |-> <<>>,
        text |-> <<Quote, "D">>],
      \* empty: 
      [name |-> "empty", ok |-> FALSE,
        val |-> <<>>,
        text |-> <<>>],
      \* blank:  
      [name |-> "blank", ok |-> FALSE,
        val |-> <<>>,
        text |-> <<" ">>] }

\* the value text of "regime_code" (ok: an integer, val)
RawCodes ==
    { \* absent: (no such field)
      [name |-> "absent", ok |-> FALSE,
        val |-> 0,
        text |-> <<>>],
      \* int: 2
      [name |-> "int", ok |-> TRUE,
        val |-> 2,
        text |-> <<"2">>],
      \* word: "x"
      [name |-> "word", ok |-> FALSE,
        val |-> 0,
        text |-> <<Quote, "x", Quote>>],
      \* empty: 
      [name |-> "empty", ok |-> FALSE,
        val |-> 0,
        text |-> <<>>] }

\* the value text of "spot_ndx" and "spot_spx" (ok: a number, val in tenths)
RawSpots ==
    { \* absent: (no such field)
      [name |-> "absent", ok |-> FALSE,
        val |-> 0,
        text |-> <<>>],
      \* number: 100.6
      [name |-> "number", ok |-> TRUE,
        val |-> 1006,
        text |-> <<"1", "0", "0", ".", "6">>],
      \* word: abc
      [name |-> "word", ok |-> FALSE,
        val |-> 0,
        text |-> <<"a", "b", "c">>] }

\* the value text of "gamma_levels_ndx" (ok: an array of well-formed objects;
\* val: the strikes > 0 of the well-formed objects in it)
RawNdxLevels ==
    { \* absent: (no such field)
      [name |-> "absent", ok |-> FALSE,
        val |-> <<>>,
        text |-> <<>>],
      \* array: [{"strike":100,"gex":5}]
      [name |-> "array", ok |-> TRUE,
        val |-> <<1000>>,
        text |-> <<"[", "{", Quote, "s", "t", "r", "i", "k", "e", Quote,
                   ":", "1", "0", "0", ",", Quote, "g", "e", "x", Quote,
                   ":", "5", "}", "]">>],
      \* null: null
      [name |-> "null", ok |-> FALSE,
        val |-> <<>>,
        text |-> <<"n", "u", "l", "l">>],
      \* unterminated: [{"strike":100,"gex":5}
      [name |-> "unterminated", ok |-> FALSE,
        val |-> <<>>,
        text |-> <<"[", "{", Quote, "s", "t", "r", "i", "k", "e", Quote,
                   ":", "1", "0", "0", ",", Quote, "g", "e", "x", Quote,
                   ":", "5", "}">>],
      \* emptyArray: []
      [name |-> "emptyArray", ok |-> TRUE,
        val |-> <<>>,
        text |-> <<"[", "]">>],
      \* strikeNull: [{"strike":null,"gex":5}]
      [name |-> "strikeNull", ok |-> FALSE,
        val |-> <<>>,
        text |-> <<"[", "{", Quote, "s", "t", "r", "i", "k", "e", Quote,
                   ":", "n", "u", "l", "l", ",", Quote, "g", "e", "x",
                   Quote, ":", "5", "}", "]">>],
      \* strikeWord: [{"strike":"abc","gex":5}]
      [name |-> "strikeWord", ok |-> FALSE,
        val |-> <<>>,
        text |-> <<"[", "{", Quote, "s", "t", "r", "i", "k", "e", Quote,
                   ":", Quote, "a", "b", "c", Quote, ",", Quote, "g", "e",
                   "x", Quote, ":", "5", "}", "]">>],
      \* strikeEmpty: [{"strike":,"gex":5}]
      [name |-> "strikeEmpty", ok |-> FALSE,
        val |-> <<>>,
        text |-> <<"[", "{", Quote, "s", "t", "r", "i", "k", "e", Quote,
                   ":", ",", Quote, "g", "e", "x", Quote, ":", "5", "}", "]">>],
      \* strikeMissing: [{"gex":5}]
      [name |-> "strikeMissing", ok |-> FALSE,
        val |-> <<>>,
        text |-> <<"[", "{", Quote, "g", "e", "x", Quote, ":", "5", "}", "]">>],
      \* gexNull: [{"strike":100,"gex":null}]
      [name |-> "gexNull", ok |-> FALSE,
        val |-> <<1000>>,
        text |-> <<"[", "{", Quote, "s", "t", "r", "i", "k", "e", Quote,
                   ":", "1", "0", "0", ",", Quote, "g", "e", "x", Quote,
                   ":", "n", "u", "l", "l", "}", "]">>],
      \* gexNullFirst: [{"gex":null,"strike":100}]
      [name |-> "gexNullFirst", ok |-> FALSE,
        val |-> <<1000>>,
        text |-> <<"[", "{", Quote, "g", "e", "x", Quote, ":", "n", "u",
                   "l", "l", ",", Quote, "s", "t", "r", "i", "k", "e",
                   Quote, ":", "1", "0", "0", "}", "]">>] }

\* the value text of "gamma_levels_spx"
RawSpxLevels ==
    { \* absent: (no such field)
      [name |-> "absent", ok |-> FALSE,
        val |-> <<>>,
        text |-> <<>>],
      \* array: [{"strike":50,"gex":2}]
      [name |-> "array", ok |-> TRUE,
        val |-> <<500>>,
        text |-> <<"[", "{", Quote, "s", "t", "r", "i", "k", "e", Quote,
                   ":", "5", "0", ",", Quote, "g", "e", "x", Quote, ":",
                   "2", "}", "]">>],
      \* unterminated: [{"strike":1
      [name |-> "unterminated", ok |-> FALSE,
        val |-> <<>>,
        text |-> <<"[", "{", Quote, "s", "t", "r", "i", "k", "e", Quote,
                   ":", "1">>] }

\* a line that ends with its closing brace, and one cut off before it
Tails == {<<"}">>, <<>>}

Pick(S, n) == CHOOSE v \in S : v.name = n

\* every way of writing the scalar fields, with both level arrays in order
\* or left out; and every way of writing the level arrays, with the scalar
\* fields in order or failing
RawLines ==
    { [regime |-> r, code |-> c, spot |-> s,
       ndx |-> Pick(RawNdxLevels, lv), spx |-> Pick(RawSpxLevels, lv),
       tail |-> t] :
         r \in RawRegimes, c \in RawCodes, s \in RawSpots,
         lv \in {"absent", "array"}, t \in Tails }
    \cup
    { [regime |-> Pick(RawRegimes, rn), code |-> Pick(RawCodes, cn),
       spot |-> Pick(RawSpots, "number"), ndx |-> n, spx |-> x, tail |-> t] :
         rn \in {"absent", "quoted"}, cn \in {"int", "word"},
         n \in RawNdxLevels, x \in RawSpxLevels, t \in Tails }

\* ,"key":text  or nothing for a field left out
SerialiseField(key, variant) ==
    IF variant.name = "absent" THEN <<>>
    ELSE <<",", Quote>> \o key \o <<Quote, ":">> \o variant.text

\* {"v":1,"regime":...,"regime_code":...,"spot_ndx":...,"spot_spx":...,
\*  "gamma_levels_ndx":...,"gamma_levels_spx":...}
SerialiseFields(r) ==
    <<"{", Quote, "v", Quote, ":", "1">>
       \o SerialiseField(KeyRegime, r.regime)
       \o SerialiseField(KeyRegimeCode, r.code)
       \o SerialiseField(KeySpotNdx, r.spot)
       \o SerialiseField(KeySpotSpx, r.spot)
       \o SerialiseField(KeyLevelsNdx, r.ndx)
       \o SerialiseField(KeyLevelsSpx, r.spx)
       \o r.tail

ScalarKeys == {KeyRegime, KeyRegimeCode, KeySpotNdx, KeySpotSpx}

InitDecode ==
    /\ rawLine \in RawLines
    /\ indexSymbol \in {"NDX", "SPX"}
    /\ State = "DataLoaded"
    /\ hostPc = "started"
    /\ ChartControl = TRUE
    /\ CurrentBar = -1
    /\ isRunning = FALSE
    /\ listenerThread = "null"
    /\ liveThreads = 0
    /\ clients = 0
    /\ pc = "none"
    /\ json = 0
    /\ prevJson = 0
    /\ received = 0
    /\ lockObj = "free"
    /\ currentRegime = WAITING
    /\ previousRegime = NoPrevious
    /\ regimeCode = 0
    /\ lastUpdate = 0
    /\ indexPrice = 0
    /\ futuresPrice = 0
    /\ spread = 0
    /\ lastClosePrice = 0
    /\ gammaLevels = <<>>
    /\ dispatcher = <<>>
    /\ uiPc = "idle"
    /\ jsonCopy = NoJob
    /\ snap = NoSnap
    /\ message = "none"
    /\ stage1Of = 0
    /\ postedOf = 0
    /\ rawLevels = <<>>
    /\ decoded = <<>>
    /\ DashboardIdle

\* the decoding calls of ParseRegimeUpdate and of its posted operation, on
\* the text of the raw line
ParseRegimeUpdateDecode ==
    /\ uiPc = "idle"
    /\ LET line == SerialiseFields(rawLine)
       IN  /\ previousRegime' =
                 TrackPrevious(currentRegime, previousRegime, NewRegime(line))
           /\ currentRegime' = NewRegime(line)
           /\ regimeCode' = ParseCode(line)
           /\ indexPrice' = ParseIndexPrice(line, indexSymbol, indexPrice)
           /\ gammaLevels' = ParseGammaLevels(line, indexSymbol, spread)
           /\ decoded' = [k \in ScalarKeys |-> ExtractJsonValue(line, k)]
    /\ uiPc' = "parsed"
    /\ UNCHANGED <<hostVars, loopVars, lockObj, lastUpdate, futuresPrice,
                   spread, lastClosePrice, dispatcher, jsonCopy, snap,
                   message, stage1Of, postedOf, rawLevels, rawLine, dashVars>>

SpecDecode == InitDecode /\ [][ParseRegimeUpdateDecode]_vars

(***************************************************************************)
(* The dashboards: web/main.js and the playground page.  Timer ids are the  *)
(* browser's (1, 2, ...); 0 stands for the null of a timer variable.        *)
(***************************************************************************)
\* what the user can have typed into #settingInterval (seconds)
Intervals == {1, 2}

\* the symbols eel.get_symbols() can return
Symbols == {"SPY", "QQQ"}

\* the page as its script starts: the globals as declared
InitPage ==
    /\ dashboard \in {"web", "playground"}
    /\ initPc = "none"
    /\ calls = 0
    /\ refresh_interval = 60
    /\ refreshTimer = 0
    /\ countdownTimer = 0
    /\ timeLeft = 0
    /\ timers = {}
    /\ timerIds = 0
    /\ selected = ""
    /\ loads = 0
    /\ pending = {}
    /\ failed = {}
    /\ cachedData = NoData
    /\ rendered = NoData
    /\ feed \in {<<>>, <<Placeholder>>}
    /\ feedCount = 0
    /\ compassHistory = [Traders |-> <<>>, Whale |-> <<>>]

indicatorVars ==
    <<hostVars, loopVars, lockObj, regimeVars, priceVars, lastClosePrice,
      uiVars, traceVars>>

\* Variant of startTimers that does not cancel the timers it replaces
StartTimersNoClear ==
    IF dashboard = "web"
    THEN /\ timeLeft' = refresh_interval'
         /\ countdownTimer' = timerIds + 1
         /\ refreshTimer' = timerIds + 2
         /\ timerIds' = timerIds + 2
         /\ timers' = timers \cup
               { [id |-> timerIds + 1, kind |-> "countdown", period |-> 1],
                 [id |-> timerIds + 2, kind |-> "refresh",
                  period |-> refresh_interval'] }
    ELSE /\ refreshTimer' = timerIds + 1
         /\ timerIds' = timerIds + 1
         /\ timers' = timers \cup
               { [id |-> timerIds + 1, kind |-> "refresh",
                  period |-> refresh_interval'] }
         /\ UNCHANGED <<countdownTimer, timeLeft>>

\* startTimers(), with the interval the caller has just set: clearInterval
\* of the timers the variables hold, then setInterval
StartTimers ==
    IF dashboard = "web"
    THEN /\ timeLeft' = refresh_interval'
         /\ countdownTimer' = timerIds + 1
         /\ refreshTimer' = timerIds + 2
         /\ timerIds' = timerIds + 2
         /\ timers' =
               { t \in timers : t.id \notin {refreshTimer, countdownTimer} }
               \cup
               { [id |-> timerIds + 1, kind |-> "countdown", period |-> 1],
                 [id |-> timerIds + 2, kind |-> "refresh",
                  period |-> refresh_interval'] }
    ELSE /\ refreshTimer' = timerIds + 1
         /\ timerIds' = timerIds + 1
         /\ timers' =
               { t \in timers : t.id # refreshTimer }
               \cup
               { [id |-> timerIds + 1, kind |-> "refresh",
                  period |-> refresh_interval'] }
         /\ UNCHANGED <<countdownTimer, timeLeft>>

\* loadSymbol() up to its await: the call to eel.get_dashboard_data(symbol)
\* is under way
LoadSymbolStart ==
    /\ loads' = loads + 1
    /\ pending' = pending \cup {[call |-> loads + 1, symbol |-> selected']}
    /\ UNCHANGED failed

\* init() is called and stops at 'await eel.get_settings()()'
InitCall ==
    /\ dashboard # "none"
    /\ initPc \in {"none", "done"}
    /\ calls < MaxCalls
    /\ calls' = calls + 1
    /\ initPc' = "settings"
    /\ UNCHANGED <<indicatorVars, dashboard, refresh_interval, refreshTimer,
                   countdownTimer, timeLeft, timers, timerIds, selected,
                   loads, pending, failed, cachedData, rendered, feed,
                   feedCount, eventsLeft, compassHistory>>

\* the settings arrive: currentSettings is replaced; init() goes on to
\* 'await eel.trigger_data_refresh()()' and 'await eel.get_symbols()()'
InitSettings ==
    /\ initPc = "settings"
    /\ \E interval \in Intervals : refresh_interval' = interval
    /\ initPc' = "symbols"
    /\ UNCHANGED <<indicatorVars, dashboard, calls, refreshTimer,
                   countdownTimer, timeLeft, timers, timerIds, selected,
                   loads, pending, failed, cachedData, rendered, feed,
                   feedCount, eventsLeft, compassHistory>>

\* the symbols arrive: the selector is filled and, when there is a symbol,
\* loadSymbol() and startTimers() are called
InitSymbols ==
    /\ initPc = "symbols"
    /\ initPc' = "done"
    /\ \E some \in BOOLEAN :
          IF some
          THEN /\ loads < MaxLoads
               /\ selected' = "SPY"
               /\ LoadSymbolStart
               /\ UNCHANGED refresh_interval
               /\ StartTimers
          ELSE /\ selected' = ""
               /\ UNCHANGED <<refresh_interval, refreshTimer, countdownTimer,
                              timeLeft, timers, timerIds, loads, pending,
                              failed>>
    /\ UNCHANGED <<indicatorVars, dashboard, calls, cachedData, rendered,
                   feed, feedCount, eventsLeft, compassHistory>>

\* saveSettings(): the interval typed by the user is stored and the timers
\* are started again
SaveSettings ==
    /\ dashboard # "none"
    /\ calls < MaxCalls
    /\ calls' = calls + 1
    /\ \E newInterval \in Intervals : refresh_interval' = newInterval
    /\ StartTimers
    /\ UNCHANGED <<indicatorVars, dashboard, initPc, selected, loads,
                   pending, failed, cachedData, rendered, feed, feedCount,
                   eventsLeft, compassHistory>>

\* the countdown timer fires (web dashboard)
CountdownTick ==
    /\ \E t \in timers : t.kind = "countdown"
    /\ timeLeft' = IF timeLeft - 1 <= 0 THEN refresh_interval
                   ELSE timeLeft - 1
    /\ UNCHANGED <<indicatorVars, dashboard, initPc, calls, refresh_interval,
                   refreshTimer, countdownTimer, timers, timerIds, selected,
                   loads, pending, failed, cachedData, rendered, feed,
                   feedCount, eventsLeft, compassHistory>>

\* a refresh timer fires: once eel.trigger_data_refresh() has returned,
\* loadSymbol() is called
RefreshTick ==
    /\ \E t \in timers : t.kind = "refresh"
    /\ loads < MaxLoads
    /\ UNCHANGED selected
    /\ LoadSymbolStart
    /\ UNCHANGED <<indicatorVars, dashboard, initPc, calls, refresh_interval,
                   refreshTimer, countdownTimer, timeLeft, timers, timerIds,
                   cachedData, rendered, feed, feedCount, eventsLeft,
                   compassHistory>>

\* the user picks a symbol in the selector, whose change calls loadSymbol()
SelectSymbol ==
    /\ selected # ""
    /\ loads < MaxLoads
    /\ \E s \in Symbols : selected' = s
    /\ LoadSymbolStart
    /\ UNCHANGED <<indicatorVars, dashboard, initPc, calls, refresh_interval,
                   refreshTimer, countdownTimer, timeLeft, timers, timerIds,
                   cachedData, rendered, feed, feedCount, eventsLeft,
                   compassHistory>>

\* eel.get_dashboard_data answers one of the calls under way, in any order:
\* loadSymbol() goes on after its await
LoadSymbolReturn ==
    /\ \E c \in pending, error \in BOOLEAN :
          /\ pending' = pending \ {c}
          /\ IF error
             THEN /\ failed' = failed \cup {c.call}
                  /\ UNCHANGED <<cachedData, rendered, timeLeft>>
             ELSE /\ UNCHANGED failed
                  /\ cachedData' = c
                  /\ rendered' = c
                  /\ IF dashboard = "web"
                     THEN timeLeft' = refresh_interval
                     ELSE UNCHANGED timeLeft
    /\ UNCHANGED <<indicatorVars, dashboard, initPc, calls, refresh_interval,
                   refreshTimer, countdownTimer, timers, timerIds, selected,
                   loads, feed, feedCount, eventsLeft, compassHistory>>

\* the length the activity feed is cut back to
WebFeedLimit == 50

PlaygroundFeedLimit == 20

FeedLimit == IF dashboard = "web" THEN WebFeedLimit ELSE PlaygroundFeedLimit

\* Variant of addNotificationToPanel that removes the first child when the
\* feed is over its limit
AddNotificationDropsNewest(throws) ==
    LET cleared ==
           IF dashboard = "web"
           THEN IF Len(feed) = 1 /\ feed[1].text = "Listening" THEN <<>>
                ELSE feed
           ELSE IF \E i \in 1..Len(feed) : feed[i].text = "Listening"
                THEN <<>>
                ELSE feed
        grown == <<[n |-> feedCount + 1, text |-> "event"]>> \o cleared
    IN  IF throws
        THEN feed' = cleared /\ UNCHANGED feedCount
        ELSE /\ feedCount' = feedCount + 1
             /\ feed' = IF Len(grown) > FeedLimit THEN Tail(grown) ELSE grown

\* addNotificationToPanel(event): the placeholder is removed, the entry of
\* the event is built (which throws on a magnet_change without its numbers)
\* and put first, and the last child is removed when the feed is over its
\* limit
AddNotificationToPanel(throws) ==
    LET cleared ==
           IF dashboard = "web"
           THEN IF Len(feed) = 1 /\ feed[1].text = "Listening" THEN <<>>
                ELSE feed
           ELSE IF \E i \in 1..Len(feed) : feed[i].text = "Listening"
                THEN <<>>
                ELSE feed
        grown == <<[n |-> feedCount + 1, text |-> "event"]>> \o cleared
    IN  IF throws
        THEN feed' = cleared /\ UNCHANGED feedCount
        ELSE /\ feedCount' = feedCount + 1
             /\ feed' = IF Len(grown) > FeedLimit
                        THEN SubSeq(grown, 1, Len(grown) - 1)
                        ELSE grown

EventTypes == {"magnet_change", "data_refresh", "other"}

\* handle_backend_event(event): the feed entry, then in the web dashboard
\* loadSymbol() for a data_refresh of the selected symbol
HandleBackendEvent ==
    /\ dashboard # "none"
    /\ eventsLeft > 0
    /\ eventsLeft' = eventsLeft - 1
    /\ \E type \in EventTypes, symbol \in Symbols, wellFormed \in BOOLEAN :
          /\ (type # "magnet_change") => wellFormed
          /\ AddNotificationToPanel(~wellFormed)
          /\ IF /\ dashboard = "web"
                /\ type = "data_refresh"
                /\ symbol = selected
             THEN /\ loads < MaxLoads
                  /\ UNCHANGED selected
                  /\ LoadSymbolStart
             ELSE UNCHANGED <<selected, loads, pending, failed>>
    /\ UNCHANGED <<indicatorVars, dashboard, initPc, calls, refresh_interval,
                   refreshTimer, countdownTimer, timeLeft, timers, timerIds,
                   cachedData, rendered, compassHistory>>

\* puck positions in tenths of a percent: the centre, one exactly 0.5 away
\* from it, and one a little farther
Positions ==
    { [x |-> 500, y |-> 500], [x |-> 503, y |-> 504], [x |-> 504, y |-> 504] }

\* the square of 0.5 percent, in tenths
HalfPercentSquared == 25

\* dx^2 + dy^2
DistSquared(newPos, last) ==
    (newPos.x - last.x) * (newPos.x - last.x)
       + (newPos.y - last.y) * (newPos.y - last.y)

\* dist > 0.5 for dist = Math.sqrt(dx^2 + dy^2)
MovedSignificantly(newPos, last) ==
    DistSquared(newPos, last) > HalfPercentSquared

\* the trail may hold the current position and 5 older ones
MaxTrail == 6

\* Variant of Trail that appends a position at exactly 0.5 too
TrailGe(history, newPos) ==
    LET last  == history[Len(history)]
        grown == IF history = <<>> THEN <<newPos>>
                 ELSE IF DistSquared(newPos, last) >= HalfPercentSquared
                      THEN Append(history, newPos)
                      ELSE history
    IN  IF Len(grown) > MaxTrail THEN Tail(grown) ELSE grown

\* the trail logic of renderCompass: history after push and shift
Trail(history, newPos) ==
    LET last  == history[Len(history)]
        grown == IF history = <<>> THEN <<newPos>>
                 ELSE IF MovedSignificantly(newPos, last)
                      THEN Append(history, newPos)
                      ELSE history
    IN  IF Len(grown) > MaxTrail THEN Tail(grown) ELSE grown

\* renderCompass(compassData, type); it returns at once without data or
\* label
RenderCompass ==
    /\ dashboard # "none"
    /\ \E type \in {"Traders", "Whale"}, newPos \in Positions,
          labelled \in BOOLEAN :
          compassHistory' =
             IF labelled
             THEN [compassHistory EXCEPT ![type] = Trail(@, newPos)]
             ELSE compassHistory
    /\ UNCHANGED <<indicatorVars, dashboard, initPc, calls, refresh_interval,
                   refreshTimer, countdownTimer, timeLeft, timers, timerIds,
                   selected, loads, pending, failed, cachedData, rendered,
                   feed, feedCount, eventsLeft>>

\* a dashboard page from its load on: init, the settings dialog, the timers,
\* the symbol selector, the backend's answers and its first events
NextDashboard ==
    \/ InitCall
    \/ InitSettings
    \/ InitSymbols
    \/ SaveSettings
    \/ CountdownTick
    \/ RefreshTick
    \/ SelectSymbol
    \/ LoadSymbolReturn
    \/ HandleBackendEvent

InitDashboard ==
    /\ IndicatorIdle
    /\ InitPage
    /\ eventsLeft = MaxEvents

SpecDashboard == InitDashboard /\ [][NextDashboard]_vars

\* the activity feed of a page that has not finished init, under more
\* events than its limit
InitFeed ==
    /\ IndicatorIdle
    /\ InitPage
    /\ eventsLeft = FeedLimit + 2

SpecFeed == InitFeed /\ [][HandleBackendEvent]_vars

\* the compass trails under any sequence of renderCompass calls
InitCompass ==
    /\ IndicatorIdle
    /\ InitPage
    /\ eventsLeft = 0

SpecCompass == InitCompass /\ [][RenderCompass]_vars

(***************************************************************************)
(* Properties.                                                              *)
(***************************************************************************)
\* the shared aggregate: regime record, price context, level list
Aggregate ==
    <<currentRegime, previousRegime, regimeCode, lastUpdate, indexPrice,
      futuresPrice, spread, gammaLevels>>

\* the part of the aggregate the posted operation writes
PostedPart == <<futuresPrice, spread, gammaLevels>>

\* the index price the line of a posted operation carries for the affinity
OwnIndexPrice(job) == ParseIndexPrice(Lines[job.line], indexSymbol, 0)

\* C1: a render pass never draws a torn aggregate: the scalars copied in its
\* first lock region and the levels copied in its second all come from one
\* fully applied update, i.e. when the pass copies the scalars the line whose
\* first region ran last has also completed its update cycle, and the levels
\* it copies later are those of that same update.
C1_RenderNeverTorn ==
    [][(uiPc = "panel" /\ uiPc' = "idle")
          => /\ snap.stage1Of = snap.postedOf
             /\ snap.postedOf = postedOf]_vars

\* C2: updates take effect in the order of their lines: when the posted
\* operation of a line changes futures price, spread or levels, no later line
\* has yet changed the label, code or index price.
C2_AppliedInReceiveOrder ==
    [][(uiPc = "work" /\ PostedPart' # PostedPart)
          => stage1Of = jsonCopy.seq]_vars

\* C3: the posted operation of a line that carries a positive index price P,
\* run with a sampled price > 0, stores spread = round(P) - round(sample) and
\* levels at strike - that spread, whatever lines were received meanwhile.
C3_SpreadFromOwnLine ==
    [][(/\ uiPc = "work" /\ uiPc' = "idle"
        /\ indexSymbol # ""
        /\ lastClosePrice > 0
        /\ OwnIndexPrice(jsonCopy) > 0)
          => /\ spread' = MathRound(OwnIndexPrice(jsonCopy))
                            - MathRound(lastClosePrice)
             /\ \A i \in 1..Len(gammaLevels') :
                   gammaLevels'[i].FuturesPrice
                      = gammaLevels'[i].Strike - spread']_vars

C5_FailClosed ==
    [][(/\ uiPc = "work" /\ uiPc' = "idle"
        /\ lastClosePrice > 0
        /\ message' = "Failed to process update")
          => Aggregate' = Aggregate]_vars

RegimeLabels == {<<"A">>, <<"B">>, WAITING}

\* the line holds "regime":"X", with or without a blank after the colon
HasRegime(line, X) ==
    \/ Contains(line, <<Quote>> \o KeyRegime \o <<Quote, ":", Quote>>
                        \o X \o <<Quote>>)
    \/ Contains(line, <<Quote>> \o KeyRegime \o <<Quote, ":", " ", Quote>>
                        \o X \o <<Quote>>)

\* C6: applying a line that holds "regime":"X" makes X the current label;
\* the previous label becomes the prior current label when that was not
\* "WAITING" and differed from X, and is unchanged otherwise.
C6_LabelShift ==
    [][(pc = "stage1" /\ pc' = "post")
          => \A X \in RegimeLabels :
                HasRegime(Lines[json], X)
                   => /\ currentRegime' = X
                      /\ previousRegime' =
                            IF currentRegime # WAITING /\ currentRegime # X
                            THEN currentRegime ELSE previousRegime]_vars

\* label A was shifted to previous by a line with label B
C6_Witness ==
    /\ pc = "post"
    /\ HasRegime(Lines[json], <<"B">>)
    /\ currentRegime = <<"B">>
    /\ previousRegime = <<"A">>

\* C7: the previous label never is the "WAITING" sentinel, and it changes
\* only in a step that moves the current label away from a value other than
\* "WAITING", to that value.
C7_PreviousNeverSentinel ==
    [][/\ previousRegime' # WAITING
       /\ previousRegime' # previousRegime
             => /\ currentRegime # WAITING
                /\ currentRegime' # currentRegime
                /\ previousRegime' = currentRegime]_vars

\* a line carried the label "WAITING" itself and the next line moved away
\* from it: the previous label did not take the sentinel
C7_Witness ==
    /\ pc = "post"
    /\ stage1Of = 2
    /\ prevJson = 3
    /\ currentRegime = <<"A">>
    /\ previousRegime = NoPrevious

\* C8: applying the line that was applied just before leaves previous label,
\* current label and code as the first application left them.
C8_SameLineIdempotent ==
    [][(pc = "stage1" /\ pc' = "post" /\ prevJson = json)
          => <<previousRegime, currentRegime, regimeCode>>'
                = <<previousRegime, currentRegime, regimeCode>>]_vars

\* the same line was applied twice in a row
C8_Witness == pc = "post" /\ stage1Of = 2 /\ prevJson = json

\* C9: the spread changes only in a step that leaves both index price and
\* futures price known (> 0), and then to round(index) - round(futures).
C9_SpreadOnlyWhenBothKnown ==
    [][spread' # spread
          => /\ indexPrice > 0 /\ indexPrice' = indexPrice
             /\ lastClosePrice > 0 /\ futuresPrice' = lastClosePrice
             /\ spread' = MathRound(indexPrice) - MathRound(futuresPrice')]_vars

\* the posted operation of a second line ran with a sampled price while the
\* index price was unknown, and the spread of the first line was kept
C9_Witness ==
    /\ postedOf = 2
    /\ indexPrice <= 0
    /\ futuresPrice > 0
    /\ spread # 0

\* C10: the first region sets the index price from the affinity's spot field
\* only when the parsed value is > 0, and leaves it unchanged otherwise.
C10_IndexKeptUnlessPositive ==
    [][(pc = "stage1" /\ pc' = "post" /\ indexSymbol # "")
          => LET spot == ParseIndexPrice(Lines[json], indexSymbol, 0)
             IN  indexPrice' = IF spot > 0 THEN spot ELSE indexPrice]_vars

\* every line read so far went through the whole pipeline: none is inside
\* ParseRegimeUpdate, no posted operation is queued or running
AllPostedWorkRan ==
    /\ received >= 1
    /\ pc \notin {"parse", "stage1", "post"}
    /\ dispatcher = <<>>
    /\ uiPc # "work"

\* the posted operation of the last line read was the last one to complete,
\* and it ran with a sampled price > 0 (it reported to the output window)
LastPostedRan ==
    /\ postedOf = received
    /\ message \in {"update", "Failed to process update"}

\* the fields as declared after one line alone went through ParseRegimeUpdate
\* and its posted operation, run with the sampled price close
DirectAggregate(line, symbol, close) ==
    LET idx == ParseIndexPrice(line, symbol, 0)
        spr == IF idx > 0 THEN MathRound(idx) - MathRound(close) ELSE 0
    IN  <<NewRegime(line), NoPrevious, ParseCode(line), idx, close, spr,
          ParseGammaLevels(line, symbol, spr)>>

\* C11 as stated: once all posted work has run, the aggregate (its arrival
\* timestamp aside) equals the one obtained by applying only the last line
\* directly, with the sampled price its posted operation used.
C11_FinalEqualsLastLine ==
    (AllPostedWorkRan /\ LastPostedRan)
       => <<currentRegime, previousRegime, regimeCode, indexPrice,
            futuresPrice, spread, gammaLevels>>
             = DirectAggregate(Lines[json], indexSymbol, futuresPrice)

\* C11 as amended: once all posted work has run, current label, code and
\* index price are those of the last line alone; if its posted operation ran
\* with a sampled price > 0, the futures price is that sample, the levels are
\* the last line's at strike - spread, and the spread is round(index) -
\* round(sample) when the last line gives an index price > 0. (The previous
\* label, and the spread when the last line gives no index price, come from
\* earlier lines.)
C11_FinalFromLastLine ==
    AllPostedWorkRan
       => /\ currentRegime = NewRegime(Lines[json])
          /\ regimeCode = ParseCode(Lines[json])
          /\ indexPrice = ParseIndexPrice(Lines[json], indexSymbol, 0)
          /\ LastPostedRan
                => /\ futuresPrice > 0
                   /\ indexPrice > 0
                         => spread = MathRound(indexPrice)
                                        - MathRound(futuresPrice)
                   /\ gammaLevels =
                         ParseGammaLevels(Lines[json], indexSymbol, spread)

\* two lines went through, the second with its posted operation run on a
\* sampled price: the previous label is the first line's
C11_Witness ==
    /\ AllPostedWorkRan
    /\ LastPostedRan
    /\ received = 2
    /\ previousRegime = <<"A">>
    /\ currentRegime = <<"B">>
    /\ gammaLevels # <<>>

\* C12: the client loop thread ends only at the outer loop test, with the run
\* flag false: no failed connect, read error, end of stream or failure while
\* a line is applied or posted ends it while the flag is true.
C12_EndsOnlyOnStop ==
    [][(listenerThread = "alive" /\ listenerThread' # "alive")
          => /\ ~isRunning
             /\ pc = "loop"
             /\ pc' = "exited"]_vars

\* a line was read, posting its work failed, and the loop ended later, after
\* StopListener had cleared the flag
C12_Witness ==
    /\ pc = "exited"
    /\ ~isRunning
    /\ received >= 1
    /\ message = "Parse error"

\* C13: while the run flag is true a closed or failed connection is followed
\* by the retry sleep before the next connect attempt: from the finally
\* block the loop goes to the retry test, from there (flag true) into the
\* sleep, a connect attempt starts only at the loop test, and the loop test
\* is reached only from the sleep, from the retry test with the flag false,
\* or by a new thread; the flag is never raised under a live thread.
C13_DelayBeforeReconnect ==
    [][/\ (pc = "finally" /\ pc' # pc) => pc' = "retry"
       /\ (pc = "retry" /\ pc' # pc)
             => pc' = IF isRunning THEN "sleep" ELSE "loop"
       /\ (pc' = "connect" /\ pc # "connect") => (pc = "loop" /\ isRunning)
       /\ (pc' = "loop" /\ pc # "loop")
             => \/ pc = "sleep"
                \/ pc = "retry" /\ ~isRunning
                \/ listenerThread # "alive"
       /\ (listenerThread = "alive" /\ isRunning') => isRunning]_vars

\* a stream that had delivered a line was closed, the loop slept and is at a
\* new connect attempt
C13_Witness ==
    /\ pc = "connect"
    /\ isRunning
    /\ received >= 1

\* C14: after a closure with the run flag true the loop comes back to a
\* connect attempt (unless the flag is cleared meanwhile); once a connect has
\* succeeded it reads again; and every line read has its first region
\* applied to the shared state.
C14_ReconnectsAfterClosure ==
    /\ (pc = "finally" /\ isRunning) ~> (pc = "connect" \/ ~isRunning)
    /\ (pc = "inner" /\ isRunning) ~> (pc = "read" \/ ~isRunning)
    /\ (pc = "parse") ~> (pc = "post" /\ stage1Of = received)

\* a line was applied on the first connection, the stream closed with the
\* flag true, and after the sleep the loop is at a new connect attempt
C14_Witness ==
    /\ pc = "connect"
    /\ isRunning
    /\ received = 1
    /\ stage1Of = 1
    /\ currentRegime = <<"A">>

\* C15: at most one client loop thread is alive, it is the one the field
\* listenerThread holds, and a StartListener call that finds it alive
\* changes nothing: under a live thread no step starts a thread or raises
\* the run flag, and the call leaves flag, thread and loop position as they
\* were.
C15_OneLoopThread ==
    /\ [](liveThreads <= 1 /\ (liveThreads = 1 <=> listenerThread = "alive"))
    /\ [][listenerThread = "alive"
            => /\ liveThreads' <= liveThreads
               /\ isRunning' => isRunning
               /\ (hostPc' = "started" /\ hostPc # "started")
                     => UNCHANGED <<isRunning, listenerThread, liveThreads, clients,
                                    pc>>]_vars

\* StopListener returned on its timeout with the thread still reading, and
\* StartListener was then called: the thread is the old one, the flag is
\* still false
C15_Witness ==
    /\ hostPc = "started"
    /\ listenerThread = "alive"
    /\ liveThreads = 1
    /\ ~isRunning
    /\ pc = "read"

\* C16: once the flag is cleared under a live loop thread the thread ends,
\* provided its blocking calls return; and a loop test that finds the flag
\* false (as after a sleep that ended with it false) starts no connect
\* attempt.
C16_ExitsAfterStop ==
    /\ (listenerThread = "alive" /\ ~isRunning) ~> (listenerThread = "dead")
    /\ [][(pc = "loop" /\ ~isRunning) => pc' # "connect"]_vars

\* StopListener cleared the flag and returned while the loop, its stream
\* closed, is in the retry sleep
C16_Witness ==
    /\ pc = "sleep"
    /\ ~isRunning
    /\ listenerThread = "alive"
    /\ hostPc = "stopped"
    /\ received >= 1

\* C17: StopListener always returns: the wait in Join ends, whether or not
\* the loop thread ever does.
C17_StopReturns == (hostPc = "joining") ~> (hostPc = "stopped")

\* StopListener has returned while the loop thread is still in ReadLine
C17_Witness ==
    /\ hostPc = "stopped"
    /\ listenerThread = "alive"
    /\ pc = "read"
    /\ received >= 1

\* C18: on a chart whose instrument gives no affinity the index price, the
\* spread and the level list keep their initial values (0, 0, empty),
\* whatever lines are received and prices sampled.
C18_IdleWithoutAffinity ==
    (State # "SetDefaults" /\ indexSymbol = "")
       => /\ indexPrice = 0
          /\ spread = 0
          /\ gammaLevels = <<>>

\* what every received line does whether or not its posted work runs: its
\* first region stores label, code and timestamp; a queued operation is only
\* ever taken from the head of the queue, to be run; an operation run without
\* a sampled price leaves futures price, spread and levels alone, and one run
\* with a sampled price replaces the levels by those of its line
LineEffects ==
    /\ (pc = "stage1" /\ pc' = "post")
          => /\ currentRegime' = NewRegime(Lines[json])
             /\ regimeCode' = ParseCode(Lines[json])
             /\ lastUpdate' = received
             /\ PostedPart' = PostedPart
    /\ (dispatcher' # dispatcher /\ pc' = pc)
          => /\ uiPc = "idle" /\ uiPc' = "work"
             /\ jsonCopy' = Head(dispatcher)
             /\ dispatcher' = Tail(dispatcher)
    /\ (uiPc = "work" /\ uiPc' = "idle")
          => IF lastClosePrice > 0
             THEN gammaLevels' =
                     ParseGammaLevels(Lines[jsonCopy.line], indexSymbol, spread')
             ELSE PostedPart' = PostedPart

\* the listener thread's step after the first region queued the line's work
Posted ==
    dispatcher' = Append(dispatcher, [line |-> json, seq |-> received])

\* C19 as stated: a line's posted work is left out only when posting it
\* fails, and it is skipped only when no price was sampled yet (the line
\* then still sets label, code and timestamp and leaves futures price, spread
\* and levels alone); in every other case it runs and replaces the levels.
C19_SkippedOnlyOnFailureOrNoPrice ==
    [][/\ LineEffects
       /\ (pc = "post" /\ pc' = "inner")
             => (Posted \/ message' = "Parse error")]_vars

\* C19 as amended: as stated, with one more case in which the posted work is
\* left out: the host gave no chart control.
C19_SkippedAlsoWithoutChart ==
    [][/\ LineEffects
       /\ (pc = "post" /\ pc' = "inner")
             => IF ChartControl THEN Posted \/ message' = "Parse error"
                ELSE dispatcher' = dispatcher]_vars

\* without a chart control a line set the label while a price was sampled,
\* and no posted work replaced the levels
C19_Witness ==
    /\ ~ChartControl
    /\ postedOf = 1
    /\ pc = "inner"
    /\ lastClosePrice > 0
    /\ currentRegime = <<"A">>
    /\ gammaLevels = <<>>
    /\ message = "none"

\* the levels the claim describes for a raw list and a spread
AdjustedLevels(list, spreadNow) ==
    LET kept == SelectSeq(list, LAMBDA e : e.strike.val > 0)
    IN  [i \in 1..Len(kept) |->
            [Strike       |-> kept[i].strike.val,
             Gex          |-> kept[i].gex.val,
             FuturesPrice |-> kept[i].strike.val - spreadNow,
             IsResistance |-> kept[i].gex.val > 0]]

\* C20: for every raw level list and every spread the decoder and adjuster
\* yields, in input order, exactly one level per entry with strike > 0, at
\* strike - spread, flagged resistance exactly when its exposure is > 0;
\* entries with strike <= 0 yield nothing.
C20_LevelsAdjusted ==
    uiPc = "parsed" => gammaLevels = AdjustedLevels(rawLevels, spread)

\* strikes 100 and 110 with exposures 5000 and -3000 under spread 2 gave
\* 98 / resistance and 108 / support
C20_Witness ==
    /\ uiPc = "parsed"
    /\ spread = 20
    /\ Len(rawLevels) = 2
    /\ rawLevels[1].strike.val = 1000 /\ rawLevels[1].gex.val = 50000
    /\ rawLevels[2].strike.val = 1100 /\ rawLevels[2].gex.val = -30000
    /\ Len(gammaLevels) = 2
    /\ gammaLevels[1].FuturesPrice = 980 /\ gammaLevels[1].IsResistance
    /\ gammaLevels[2].FuturesPrice = 1080 /\ ~gammaLevels[2].IsResistance

\* the integers nearest to x (two of them when x lies half way), in tenths
NearestIntegers(x) == {r \in (x - 5)..(x + 5) : r % 10 = 0}

\* C21: the stored spread is always an integer, and once the posted operation
\* has run with an index price and a sampled price > 0 it is the difference
\* of the two prices, each rounded to a nearest integer before subtracting.
C21_SpreadIsRoundedDifference ==
    /\ spread % 10 = 0
    /\ (uiPc = "idle" /\ indexPrice > 0 /\ lastClosePrice > 0)
          => \E ri \in NearestIntegers(indexPrice),
                rf \in NearestIntegers(futuresPrice) : spread = ri - rf

\* index 15000.6 and instrument 15002.1 gave -1
C21_Witness ==
    /\ uiPc = "idle"
    /\ indexPrice = 150006
    /\ futuresPrice = 150021
    /\ spread = -10

\* the strikes > 0 each modelled line carries under the two level keys
LineStrikes(l, symbol) ==
    IF symbol = "NDX"
    THEN <<<<1000, 1100>>, <<1200>>, <<>>, <<>>>>[l]
    ELSE <<<<500>>, <<600>>, <<>>, <<>>>>[l]

Strikes(levels) == [i \in 1..Len(levels) |-> levels[i].Strike]

\* a list that is the whole list of one line, adjusted by one spread
CompleteList(levels) ==
    /\ \E l \in 1..Len(Lines) : Strikes(levels) = LineStrikes(l, indexSymbol)
    /\ \A i, j \in 1..Len(levels) :
          levels[i].Strike - levels[i].FuturesPrice
             = levels[j].Strike - levels[j].FuturesPrice

\* C22: a posted operation run with a sampled price leaves exactly the
\* levels of its own line; the list changes only inside the UI thread's
\* lock region, which is left in the same step; and the list a render pass
\* copies is the whole list of one line (or the initial empty one).
C22_LevelsReplacedWholesale ==
    [][/\ (uiPc = "work" /\ uiPc' = "idle" /\ lastClosePrice > 0)
             => Strikes(gammaLevels') = LineStrikes(jsonCopy.line, indexSymbol)
       /\ gammaLevels' # gammaLevels
             => (lockObj = "ui" /\ uiPc = "work" /\ lockObj' = "free")
       /\ (uiPc = "panel" /\ uiPc' = "idle")
             => (lockObj = "free" /\ CompleteList(gammaLevels))]_vars

\* after two lines on an NDX chart the list holds the one level of the
\* second line and neither level of the first
C22_Witness ==
    /\ indexSymbol = "NDX"
    /\ AllPostedWorkRan
    /\ LastPostedRan
    /\ prevJson = 1
    /\ json = 2
    /\ Strikes(gammaLevels) = <<1200>>

\* the way the raw line writes the level field of the chart's affinity
AffinityLevels == IF indexSymbol = "NDX" THEN rawLine.ndx ELSE rawLine.spx

\* C23: a line whose level array (of the chart's affinity) has no closing
\* bracket leaves an empty level list once decoded, the decoding calls all
\* having returned.
C23_UnterminatedArrayGivesNoLevels ==
    (uiPc = "parsed" /\ AffinityLevels.name = "unterminated")
       => gammaLevels = <<>>

\* the line ended inside "gamma_levels_spx":[{"strike":1 on an SPX chart:
\* the label was decoded and the list is empty
C23_Witness ==
    /\ uiPc = "parsed"
    /\ indexSymbol = "SPX"
    /\ rawLine.spx.name = "unterminated"
    /\ rawLine.tail = <<>>
    /\ rawLine.ndx.name = "array"
    /\ currentRegime = <<"A">>
    /\ gammaLevels = <<>>

\* the text "regime" (in quotes) occurs nowhere in the line
LacksRegimeKey(line) == IndexOf(line, <<Quote>> \o KeyRegime \o <<Quote>>, 0) < 0

\* C24: the first region of a line without the regime key stores the label
\* "UNKNOWN", and the previous label takes the label it replaces unless that
\* one is the "WAITING" sentinel or "UNKNOWN" itself.
C24_MissingRegimeIsUnknown ==
    [][(pc = "stage1" /\ pc' = "post" /\ LacksRegimeKey(Lines[json]))
          => /\ currentRegime' = UNKNOWN
             /\ previousRegime' =
                   IF currentRegime \in {WAITING, UNKNOWN} THEN previousRegime
                   ELSE currentRegime]_vars

\* a line without the regime key came after label A
C24_Witness ==
    /\ pc = "post"
    /\ stage1Of = 2
    /\ LacksRegimeKey(Lines[json])
    /\ currentRegime = UNKNOWN
    /\ previousRegime = <<"A">>

\* C28: when the one object of the affinity's array has a strike value that
\* is missing, empty or not a numeric token, no level is stored; when its
\* gex value is not a numeric token, the stored level has exposure 0.
C28_NonNumericDecodesAsZero ==
    (uiPc = "parsed" /\ indexSymbol = "NDX") =>
       /\ rawLine.ndx.name \in
             {"strikeNull", "strikeWord", "strikeEmpty", "strikeMissing"}
          => gammaLevels = <<>>
       /\ rawLine.ndx.name \in {"gexNull", "gexNullFirst"}
          => \A i \in 1..Len(gammaLevels) : gammaLevels[i].Gex = 0

\* C30: when the affinity's levels key is absent, or present with a value
\* that is not an array, the level list is empty after the line, whatever
\* array another field later in the line carries.
C30_OnlyOwnArrayDecoded ==
    (uiPc = "parsed" /\ AffinityLevels.name \in {"absent", "null"})
       => gammaLevels = <<>>

\* the affinity's level array fails as a whole: left out, not an array, or
\* never closed
ArrayFails == AffinityLevels.name \in {"absent", "null", "unterminated"}

\* a sub-field of the raw line fails to decode
SubFieldFails == ~rawLine.code.ok \/ ~rawLine.spot.ok \/ ArrayFails

\* C25: after a line in which the code, the spot or the level array fails to
\* decode, the failing field has its default (code 0, price 0, no levels)
\* and every well-formed sibling field has the line's value.
C25_FailingFieldDefaultsSiblingsApplied ==
    (uiPc = "parsed" /\ SubFieldFails
        /\ (AffinityLevels.ok \/ ArrayFails)) =>
       /\ rawLine.regime.ok => currentRegime = rawLine.regime.val
       /\ regimeCode = rawLine.code.val
       /\ indexPrice = rawLine.spot.val
       /\ Strikes(gammaLevels) = AffinityLevels.val

\* C27: a step that changes the sampled price is a call of the per-update
\* callback after the first bar (it stores one of the host's prices and
\* touches nothing of the loop, the aggregate or the UI side); a call on the
\* first bar stores nothing and the first call after it stores its price.
C27_SampledPriceOnlyByCallback ==
    [][/\ lastClosePrice' # lastClosePrice
          => /\ CurrentBar' > 0
             /\ lastClosePrice' \in ClosePrices
             /\ UNCHANGED <<State, ChartControl, indexSymbol, hostPc,
                            loopVars, lockObj, regimeVars, priceVars,
                            uiVars, traceVars, dashVars>>
       /\ CurrentBar' = 0 => lastClosePrice' = lastClosePrice
       /\ (CurrentBar = 0 /\ CurrentBar' > 0)
          => lastClosePrice' \in ClosePrices]_vars

\* the price was sampled after the first bar and a posted operation read it
C27_Witness ==
    /\ CurrentBar = 1
    /\ lastClosePrice = 980
    /\ futuresPrice = 980
    /\ postedOf >= 1
    /\ uiPc = "idle"

\* C26: the listener holds the lock only in its first region, never while
\* it connects, reads, sleeps or posts, and the UI thread only while it runs
\* a posted operation; an operation is queued by a listener that is outside
\* the lock; a thread that waits for the lock gets through its region; and
\* while StopListener waits in Join the loop thread goes on to its end.
C26_NoDeadlock ==
    /\ [](lockObj = "sock" => pc = "stage1")
    /\ [](lockObj = "ui" => uiPc = "work")
    /\ [][Len(dispatcher') > Len(dispatcher)
             => pc = "post" /\ lockObj # "sock"]_vars
    /\ (pc = "parse") ~> (pc = "post")
    /\ (uiPc = "work") ~> (uiPc = "idle")
    /\ (hostPc = "joining") ~> (listenerThread # "alive")

\* the listener waits for the lock, held by a posted operation, while
\* StopListener waits in Join
C26_Witness ==
    /\ pc = "parse"
    /\ lockObj = "ui"
    /\ uiPc = "work"
    /\ hostPc = "joining"
    /\ listenerThread = "alive"

\* the positions (from 1) at which "key": starts in the line
KeyPositions(line, key) ==
    LET pattern == <<Quote>> \o key \o <<Quote, ":">>
    IN  { p \in 1..(Len(line) - Len(pattern) + 1) :
             SubSeq(line, p, p + Len(pattern) - 1) = pattern }

\* the position of the first character after the colon that is not white
\* space, or Len(line) + 1 when there is none
ValuePosition(line, key) ==
    LET after == Min(KeyPositions(line, key)) + Len(key) + 3
    IN  Min({ p \in after..Len(line) : ~IsWhiteSpace(line[p]) }
              \cup {Len(line) + 1})

\* the value of the key starts with a quote
QuotedValue(line, key) ==
    /\ ValuePosition(line, key) <= Len(line)
    /\ line[ValuePosition(line, key)] = Quote

\* the positions of the quotes after the opening one
ClosingQuotes(line, key) ==
    { p \in (ValuePosition(line, key) + 1)..Len(line) : line[p] = Quote }

\* the characters between the opening quote and the next one
QuotedText(line, key) ==
    SubSeq(line, ValuePosition(line, key) + 1,
           Min(ClosingQuotes(line, key)) - 1)

\* the text up to the next ',' or '}' or the end of the line, without the
\* white space around it
RawToken(line, key) ==
    LET from  == ValuePosition(line, key)
        to    == Min({ p \in from..Len(line) : line[p] \in {",", "}"} }
                       \cup {Len(line) + 1}) - 1
        solid == { p \in from..to : ~IsWhiteSpace(line[p]) }
    IN  IF solid = {} THEN <<>>
        ELSE SubSeq(line, from, CHOOSE p \in solid : \A q \in solid : q <= p)

\* C29 (as claimed): not-found when "key": does not occur; for a value that
\* starts with a quote, the characters up to the next quote; for any other,
\* the text up to the next ',' or '}' or the end of the line, trimmed.
C29_ExtractAsClaimed ==
    uiPc = "parsed" =>
       \A k \in ScalarKeys :
          LET line == SerialiseFields(rawLine)
          IN  /\ KeyPositions(line, k) = {} => decoded[k] = Null
              /\ (/\ KeyPositions(line, k) # {}
                  /\ QuotedValue(line, k)
                  /\ ClosingQuotes(line, k) # {})
                 => decoded[k] = QuotedText(line, k)
              /\ (KeyPositions(line, k) # {} /\ ~QuotedValue(line, k))
                 => decoded[k] = RawToken(line, k)

\* C29 (amended): not-found when "key": does not occur, when nothing but
\* white space follows the colon up to the end of the line, and when the
\* value starts with a quote that no later quote closes; otherwise the
\* quoted characters, or the trimmed text up to the next ',' or '}' or the
\* end of the line.
C29_ExtractAsAmended ==
    uiPc = "parsed" =>
       \A k \in ScalarKeys :
          LET line == SerialiseFields(rawLine)
          IN  IF KeyPositions(line, k) = {} THEN decoded[k] = Null
              ELSE IF ValuePosition(line, k) > Len(line)
                   THEN decoded[k] = Null
              ELSE IF QuotedValue(line, k)
                   THEN IF ClosingQuotes(line, k) = {} THEN decoded[k] = Null
                        ELSE decoded[k] = QuotedText(line, k)
              ELSE decoded[k] = RawToken(line, k)

\* a line cut off after the blank that follows "regime": was decoded: the
\* label is not found
C29_Witness ==
    /\ uiPc = "parsed"
    /\ rawLine.regime.name = "blank"
    /\ rawLine.code.name = "absent"
    /\ rawLine.spot.name = "absent"
    /\ rawLine.ndx.name = "absent"
    /\ rawLine.tail = <<>>
    /\ decoded[KeyRegime] = Null
    /\ currentRegime = UNKNOWN

\* C31: whenever no thread is inside a lock region, every level of the
\* shared list has a strike > 0, is flagged resistance exactly when its
\* exposure is > 0, and stands at its strike minus the shared spread.
C31_LevelsConsistentOutsideLock ==
    lockObj = "free" =>
       \A i \in 1..Len(gammaLevels) :
          /\ gammaLevels[i].Strike > 0
          /\ gammaLevels[i].IsResistance = (gammaLevels[i].Gex > 0)
          /\ gammaLevels[i].FuturesPrice = gammaLevels[i].Strike - spread

\* outside the lock the list holds a resistance and a support level, both
\* moved by a spread that is not 0
C31_Witness ==
    /\ lockObj = "free"
    /\ spread # 0
    /\ Len(gammaLevels) = 2
    /\ gammaLevels[1].IsResistance
    /\ ~gammaLevels[2].IsResistance
    /\ gammaLevels[2].FuturesPrice = gammaLevels[2].Strike - spread

\* C32: once StopListener has set the stop flag, no step changes the shared
\* aggregate: neither a line the read returns afterwards nor an operation
\* still queued on the dispatcher.
C32_FrozenAfterStop ==
    [][(~isRunning /\ hostPc \in {"joining", "stopped"})
          => Aggregate' = Aggregate]_vars

\* C33: when the last call of the host was StartListener, a client loop
\* thread is alive and the run flag is true.
C33_RunningAfterStart ==
    hostPc = "started" => (isRunning /\ listenerThread = "alive")

\* C34: at most one TcpClient of the client loop is unclosed at any time,
\* and none is while the loop stands at its retry test, in its retry sleep,
\* at the loop test, before a connect attempt or after its exit.
C34_OneConnectionClosedBeforeRetry ==
    /\ clients <= 1
    /\ pc \in {"none", "retry", "sleep", "loop", "connect", "exited"}
       => clients = 0

\* the loop waits to reconnect after the stream of a connection that
\* delivered a line ended: that connection is closed
C34_Witness ==
    /\ pc = "sleep"
    /\ isRunning
    /\ received >= 1
    /\ clients = 0

\* C35: a dashboard page has at most one refresh interval active and at
\* most one countdown interval (none in the playground), and an active one
\* is the one its timer variable holds.
C35_OneTimerOfEachKind ==
    /\ Cardinality({ t \in timers : t.kind = "refresh" }) <= 1
    /\ Cardinality({ t \in timers : t.kind = "countdown" }) <= 1
    /\ \A t \in timers :
          /\ t.kind = "refresh" => t.id = refreshTimer
          /\ t.kind = "countdown"
                => (dashboard = "web" /\ t.id = countdownTimer)

\* init and a saveSettings call have each started the timers of the web
\* dashboard: the two of the later call are active
C35_Witness ==
    /\ dashboard = "web"
    /\ initPc = "done"
    /\ calls = 2
    /\ timerIds = 4
    /\ Cardinality(timers) = 2
    /\ refreshTimer = 4

\* C36: once every loadSymbol call has completed, cachedData and the
\* rendered dashboard hold the data of the call started last (when the
\* backend answered it with data).
C36_LatestLoadWins ==
    (pending = {} /\ loads > 0 /\ loads \notin failed)
       => (cachedData.call = loads /\ rendered.call = loads)

\* C37: a trail never holds more than 6 positions; a renderCompass step
\* changes only a trail by putting one position at its end, which it does
\* only to an empty trail or with a position more than 0.5 away from the
\* last one; and when that makes 7 positions, the one dropped is the first.
C37_TrailBounded ==
    /\ [](\A type \in {"Traders", "Whale"} :
             Len(compassHistory[type]) <= MaxTrail)
    /\ [][\A type \in {"Traders", "Whale"} :
            LET old == compassHistory[type]
                new == compassHistory'[type]
            IN  new # old =>
                  /\ \/ old = <<>>
                     \/ DistSquared(new[Len(new)], old[Len(old)])
                           > HalfPercentSquared
                  /\ \/ new = Append(old, new[Len(new)])
                     \/ /\ Len(old) = MaxTrail
                        /\ new = Append(Tail(old), new[Len(new)])]_vars

\* the Traders trail is full, between the centre and the position a little
\* more than 0.5 away; the Whale trail holds the position at exactly 0.5,
\* which no call at the centre added to
C37_Witness ==
    /\ Len(compassHistory["Traders"]) = MaxTrail
    /\ compassHistory["Traders"][1] = [x |-> 504, y |-> 504]
    /\ compassHistory["Traders"][MaxTrail] = [x |-> 500, y |-> 500]
    /\ compassHistory["Whale"] = <<[x |-> 503, y |-> 504]>>

\* C38: the activity feed never holds more entries than its limit (50 in
\* the web dashboard, 20 in the playground); its entries stand newest
\* first; and a step that puts an entry first keeps the entries that were
\* there in their order, leaving out only the last one when the feed was at
\* its limit.
C38_FeedBounded ==
    /\ [](Len(feed) <= FeedLimit)
    /\ [](\A i, j \in 1..Len(feed) : i < j => feed[i].n > feed[j].n)
    /\ [][feedCount' # feedCount =>
            /\ feed'[1].n = feedCount'
            /\ LET before == IF Placeholder \in {feed[i] : i \in 1..Len(feed)}
                             THEN <<>> ELSE feed
               IN  Tail(feed') =
                      IF Len(before) = FeedLimit
                      THEN SubSeq(before, 1, FeedLimit - 1)
                      ELSE before]_vars

\* the web feed is at its limit and its oldest entries are gone
C38_Witness ==
    /\ dashboard = "web"
    /\ Len(feed) = WebFeedLimit
    /\ feedCount = WebFeedLimit + 2
    /\ feed[1].n = WebFeedLimit + 2
    /\ feed[WebFeedLimit].n = 3
====
